---- MODULE Spec2Model ----
(***************************************************************************)
(* Model of the anomaly-detection report generator of the Quack MCP server *)
(* (src/src/index.ts): detectAnomalies / generateAnomalyReport and the     *)
(* five detectors, running against an in-memory DuckDB database.           *)
(*                                                                         *)
(* A table is a bag of rows: a sequence of row groups, each a tuple of     *)
(* cells with a multiplicity.  The SQL statements the code sends are       *)
(* modelled by operators that compute the statement's result from the bag. *)
(***************************************************************************)
EXTENDS Integers, Sequences, FiniteSets, TLC

(***************************************************************************)
(* Bounds of the model                                                     *)
(***************************************************************************)
\* number of engine failures (rejected queries) injected into one call
MaxFailures == 1

(***************************************************************************)
(* Cells, tables, fixtures                                                 *)
(***************************************************************************)
Null == [k |-> "null", v |-> 0, len |-> 0]
Num(x) == [k |-> "int", v |-> x, len |-> 0]
Text(id, l) == [k |-> "text", v |-> id, len |-> l]
Date(d) == [k |-> "date", v |-> d, len |-> 0]

Col(name, type) == [column_name |-> name, column_type |-> type]
Row(vals, n) == [vals |-> vals, n |-> n]

\* 10 rows: the numeric column is 1..9 and 1000, all distinct; one label
\* occurs twice and one label is 300 characters long.
TableSmall ==
  [schema |-> << Col("value", "BIGINT"), Col("label", "VARCHAR") >>,
   rows |-> << Row(<<Num(1), Text(1, 5)>>, 1), Row(<<Num(2), Text(2, 5)>>, 1),
               Row(<<Num(3), Text(3, 5)>>, 1), Row(<<Num(4), Text(4, 5)>>, 1),
               Row(<<Num(5), Text(5, 5)>>, 1), Row(<<Num(6), Text(6, 5)>>, 1),
               Row(<<Num(7), Text(7, 5)>>, 1), Row(<<Num(8), Text(8, 5)>>, 1),
               Row(<<Num(9), Text(8, 5)>>, 1), Row(<<Num(1000), Text(10, 300)>>, 1) >>]

\* 200 rows: duplicated values, null rates of 11.5%, 28.5% and 60%, 110 zero
\* prices, 3 inverted date pairs, 55 empty strings and 2 outlying amounts.
TableOrders ==
  [schema |-> << Col("code", "VARCHAR"), Col("note", "VARCHAR"),
                 Col("price", "BIGINT"), Col("Amount", "BIGINT"),
                 Col("start_dt", "DATE"), Col("end_dt", "DATE") >>,
   rows |-> << Row(<<Text(1, 3), Null,       Num(0), Num(5),  Date(1), Date(2)>>, 60),
               Row(<<Text(2, 3), Null,       Num(0), Num(5),  Date(1), Date(2)>>, 50),
               Row(<<Text(3, 3), Null,       Num(3), Num(6),  Date(2), Date(1)>>, 3),
               Row(<<Text(4, 3), Null,       Num(4), Num(6),  Date(1), Date(1)>>, 7),
               Row(<<Null,       Text(5, 0), Num(4), Num(5),  Date(1), Date(2)>>, 55),
               Row(<<Null,       Text(6, 4), Num(5), Num(20), Date(1), Date(2)>>, 2),
               Row(<<Text(1, 3), Text(6, 4), Num(5), Num(5),  Null,    Date(2)>>, 23) >>]

\* 102,026 rows of text: the largest group of the columns c1..c7 has
\* 50001, 50000, 1001, 1000, 11, 10 and 2 rows, c8 has no repeated value and
\* c9 lies behind the eight columns the duplicate detector examines.
TableBig ==
  [schema |-> << Col("c1", "VARCHAR"), Col("c2", "VARCHAR"), Col("c3", "VARCHAR"),
                 Col("c4", "VARCHAR"), Col("c5", "VARCHAR"), Col("c6", "VARCHAR"),
                 Col("c7", "VARCHAR"), Col("c8", "VARCHAR"), Col("c9", "VARCHAR") >>,
   rows |->
     << Row(<<Text(1, 5), Null, Null, Null, Null, Null, Null, Null, Text(1, 5)>>, 50001),
        Row(<<Text(2, 5), Text(2, 5), Null, Null, Null, Null, Null, Null, Text(1, 5)>>, 50000),
        Row(<<Null, Text(3, 5), Text(3, 5), Null, Null, Null, Null, Null, Text(1, 5)>>, 1001),
        Row(<<Text(4, 5), Text(4, 5), Text(4, 5), Text(4, 5), Null, Null, Null, Null,
              Text(1, 5)>>, 1000),
        Row(<<Text(5, 5), Text(5, 5), Text(5, 5), Text(5, 5), Text(5, 5), Null, Null, Null,
              Text(1, 5)>>, 11),
        Row(<<Text(6, 5), Text(6, 5), Text(6, 5), Text(6, 5), Text(6, 5), Text(6, 5), Null,
              Null, Text(1, 5)>>, 10),
        Row(<<Text(7, 5), Text(7, 5), Text(7, 5), Text(7, 5), Text(7, 5), Text(7, 5),
              Text(7, 5), Null, Text(1, 5)>>, 2),
        Row(<<Text(8, 5), Text(8, 5), Text(8, 5), Text(8, 5), Text(8, 5), Text(8, 5),
              Text(8, 5), Text(8, 5), Text(1, 5)>>, 1),
        Row(<<Text(9, 5), Text(9, 5), Text(9, 5), Text(9, 5), Text(9, 5), Text(9, 5),
              Text(9, 5), Text(9, 5), Text(1, 5)>>, 1) >>]

\* a table that exists but holds no rows
TableEmpty ==
  [schema |-> << Col("value", "BIGINT") >>, rows |-> << >>]

\* 100,000 rows of text: the columns a, b, c, d, e are null in 101, 99, 0,
\* 50001 and 10000 rows.
TableNulls ==
  [schema |-> << Col("a", "VARCHAR"), Col("b", "VARCHAR"), Col("c", "VARCHAR"),
                 Col("d", "VARCHAR"), Col("e", "VARCHAR") >>,
   rows |-> << Row(<<Null,       Null,       Text(1, 5), Null,       Null>>,       99),
               Row(<<Null,       Text(1, 5), Text(1, 5), Null,       Null>>,       2),
               Row(<<Text(1, 5), Text(1, 5), Text(1, 5), Null,       Null>>,       9899),
               Row(<<Text(1, 5), Text(1, 5), Text(1, 5), Null,       Text(1, 5)>>, 40001),
               Row(<<Text(1, 5), Text(1, 5), Text(1, 5), Text(1, 5), Text(1, 5)>>, 49999) >>]

\* 100 rows of numbers: m is 10 in 3 rows and 0 in the others, k is 7 in
\* every row, w has the ten values 1..9 and 15 and is null elsewhere, s has
\* one value and is null elsewhere; no row has begun after finished.
TableStats ==
  [schema |-> << Col("m", "BIGINT"), Col("k", "INTEGER"), Col("w", "DOUBLE"),
                 Col("s", "DECIMAL"), Col("begun", "DATE"), Col("finished", "DATE") >>,
   rows |-> << Row(<<Num(0),  Num(7), Num(1),  Num(4), Date(1), Date(1)>>, 1),
               Row(<<Num(0),  Num(7), Num(2),  Null,   Date(1), Date(2)>>, 1),
               Row(<<Num(0),  Num(7), Num(3),  Null,   Date(1), Date(2)>>, 1),
               Row(<<Num(0),  Num(7), Num(4),  Null,   Date(1), Date(2)>>, 1),
               Row(<<Num(0),  Num(7), Num(5),  Null,   Date(1), Date(2)>>, 1),
               Row(<<Num(0),  Num(7), Num(6),  Null,   Date(1), Date(2)>>, 1),
               Row(<<Num(0),  Num(7), Num(7),  Null,   Date(1), Date(2)>>, 1),
               Row(<<Num(0),  Num(7), Num(8),  Null,   Date(1), Date(2)>>, 1),
               Row(<<Num(0),  Num(7), Num(9),  Null,   Date(1), Date(2)>>, 1),
               Row(<<Num(0),  Num(7), Num(15), Null,   Date(1), Date(2)>>, 1),
               Row(<<Num(10), Num(7), Null,    Null,   Date(3), Null>>,    3),
               Row(<<Num(0),  Num(7), Null,    Null,   Date(1), Date(2)>>, 87) >>]

\* 600 rows of amounts: charge, Amount, price and total_amount are 0 in
\* 501, 500, 51 and 50 rows; price is negative in 449 rows.  Of the three
\* date columns, opened lies after closed in 101 rows, closed after audited
\* in 50 rows and opened after audited in 51 rows.
TableLedger ==
  [schema |-> << Col("charge", "DECIMAL(10,2)"), Col("Amount", "DECIMAL(10,2)"),
                 Col("price", "DECIMAL(10,2)"), Col("total_amount", "DECIMAL(10,2)"),
                 Col("opened", "DATE"), Col("closed", "TIMESTAMP"),
                 Col("audited", "TIMESTAMP WITH TIME ZONE") >>,
   rows |-> << Row(<<Num(0), Num(0), Num(0),  Num(0), Date(1), Date(5), Date(4)>>, 50),
               Row(<<Num(0), Num(0), Num(0),  Num(1), Date(3), Date(2), Date(2)>>, 1),
               Row(<<Num(0), Num(0), Num(-1), Num(1), Date(1), Date(2), Date(3)>>, 449),
               Row(<<Num(0), Num(1), Num(2),  Num(2), Date(3), Date(2), Null>>,    1),
               Row(<<Num(3), Num(1), Num(2),  Num(2), Date(3), Date(2), Date(4)>>, 99) >>]

Fixtures == {TableSmall, TableOrders, TableBig, TableEmpty, TableNulls, TableStats,
             TableLedger}

NoTable == [schema |-> << >>, rows |-> << Row(<< >>, 0) >>]

TableNames == {"t", "u"}

(***************************************************************************)
(* Sequence helpers                                                        *)
(***************************************************************************)
RECURSIVE SumSeq(_)
SumSeq(s) == IF s = << >> THEN 0 ELSE Head(s) + SumSeq(Tail(s))

RECURSIVE MaxSeq(_)
MaxSeq(s) == IF Len(s) = 1 THEN s[1]
             ELSE LET m == MaxSeq(Tail(s)) IN IF Head(s) > m THEN Head(s) ELSE m

Slice(s, from, to) == SubSeq(s, from + 1, IF to < Len(s) THEN to ELSE Len(s))

Includes(s, x) == \E i \in 1..Len(s) : s[i] = x

(***************************************************************************)
(* The embedded engine: results of the SQL statements the code issues      *)
(***************************************************************************)
Ok(rows) == [ok |-> TRUE, rows |-> rows]
Err == [ok |-> FALSE, rows |-> << >>]

TableExists(d, name) == name \in DOMAIN d /\ d[name] # NoTable

HasColumn(t, c) == \E i \in 1..Len(t.schema) : t.schema[i].column_name = c

ColIndex(t, c) == CHOOSE i \in 1..Len(t.schema) : t.schema[i].column_name = c

\* the bag of the cells of column c: cell -> number of rows holding it
CellsOf(t, c) == { t.rows[i].vals[ColIndex(t, c)] : i \in 1..Len(t.rows) }

CountCell(t, c, cell) ==
  SumSeq([i \in 1..Len(t.rows) |->
            IF t.rows[i].vals[ColIndex(t, c)] = cell THEN t.rows[i].n ELSE 0])

\* the row groups of a table, and the cell of column c in row group j
RowIds(t) == 1..Len(t.rows)

Cell(t, c, j) == t.rows[j].vals[ColIndex(t, c)]

\* COUNT(*) over the row groups I
CountRows(t, I) ==
  SumSeq([i \in 1..Len(t.rows) |-> IF i \in I THEN t.rows[i].n ELSE 0])

\* DESCRIBE <table>
DescribeQuery(d, name) ==
  IF TableExists(d, name) THEN Ok(d[name].schema) ELSE Err

\* SELECT COUNT(*) as count FROM <table>
CountQuery(d, name) ==
  IF TableExists(d, name)
  THEN Ok(<< [count |-> CountRows(d[name], RowIds(d[name]))] >>)
  ELSE Err

\* the k largest groups of S by f, largest first
RECURSIVE TopBy(_, _, _)
TopBy(S, f, k) ==
  IF S = {} \/ k = 0 THEN << >>
  ELSE LET m == CHOOSE x \in S : \A y \in S : f[y] <= f[x]
       IN  << m >> \o TopBy(S \ {m}, f, k - 1)

DuplicateLimit == 10

\* SELECT c, COUNT(*) as duplicate_count FROM t WHERE c IS NOT NULL
\* GROUP BY c HAVING COUNT(*) > 1 ORDER BY duplicate_count DESC LIMIT 10
DuplicateQuery(d, name, c) ==
  IF ~TableExists(d, name) \/ ~HasColumn(d[name], c) THEN Err
  ELSE LET t == d[name]
           cnt == [cell \in CellsOf(t, c) |-> CountCell(t, c, cell)]
           groups == { cell \in CellsOf(t, c) : cell # Null /\ cnt[cell] > 1 }
           top == TopBy(groups, cnt, DuplicateLimit)
       IN  Ok([i \in 1..Len(top) |-> [value |-> top[i], duplicate_count |-> cnt[top[i]]]])

\* ROUND(x, 2) of the quotient num * 100 / den, in hundredths
RoundPct(num, den) ==
  LET scaled == num * 10000
      q == scaled \div den
      r == scaled % den
  IN  IF 2 * r >= den THEN q + 1 ELSE q

\* SELECT COUNT(*) - COUNT(c) as null_count,
\*        ROUND((COUNT(*) - COUNT(c)) * 100.0 / COUNT(*), 2) as null_percentage FROM t
\* (null_percentage in hundredths of a percent; 0 stands for the SQL NULL of
\* a division by zero, which the code reads as 0)
NullQuery(d, name, c) ==
  IF ~TableExists(d, name) \/ ~HasColumn(d[name], c) THEN Err
  ELSE LET t == d[name]
           total == CountRows(t, RowIds(t))
           nulls == CountCell(t, c, Null)
       IN  Ok(<< [null_count |-> nulls,
                  null_percentage |-> IF total = 0 THEN 0 ELSE RoundPct(nulls, total)] >>)

NonNullCells(t, c) == CellsOf(t, c) \ {Null}

\* the row groups whose cell of column c is not null
NonNullRows(t, c) == { j \in RowIds(t) : Cell(t, c, j) # Null }

\* the sum over the non-null cells of column c of the p-th power of the value
SumPower(t, c, p) ==
  SumSeq([j \in 1..Len(t.rows) |->
            IF Cell(t, c, j) # Null THEN (Cell(t, c, j).v ^ p) * t.rows[j].n ELSE 0])

\* the k-th (from 0) of the non-null values of column c in ascending order
ValueAt(t, c, k) ==
  LET cell == CHOOSE x \in NonNullCells(t, c) :
                /\ CountRows(t, { j \in NonNullRows(t, c) : Cell(t, c, j).v < x.v }) <= k
                /\ k < CountRows(t, { j \in NonNullRows(t, c) : Cell(t, c, j).v <= x.v })
  IN  cell.v

IsNumberColumn(t, c) == \A cell \in NonNullCells(t, c) : cell.k = "int"

\* SELECT AVG(c) as mean, MIN(c) as min_val, MAX(c) as max_val, STDDEV(c) as stddev,
\*        COUNT(*) as total_count FROM t WHERE c IS NOT NULL
\* The mean is the fraction sum / total_count; STDDEV is the sample standard
\* deviation, whose square is varNum / (total_count * (total_count - 1)); it
\* is NULL for fewer than two rows.
StatsQuery(d, name, c) ==
  IF ~TableExists(d, name) \/ ~HasColumn(d[name], c) \/ ~IsNumberColumn(d[name], c) THEN Err
  ELSE LET t == d[name]
           n == CountRows(t, NonNullRows(t, c))
           sum == SumPower(t, c, 1)
           sumsq == SumPower(t, c, 2)
       IN  Ok(<< [total_count |-> n, sum |-> sum, varNum |-> n * sumsq - sum * sum,
                  min_val |-> IF n = 0 THEN 0 ELSE ValueAt(t, c, 0),
                  max_val |-> IF n = 0 THEN 0 ELSE ValueAt(t, c, n - 1),
                  stddevNull |-> n < 2] >>)

\* percentile_cont(p4 / 4) over the n sorted values, times 4: linear
\* interpolation at position p4 * (n - 1) / 4 (from 0)
PercentileCont4(t, c, p4) ==
  LET n == CountRows(t, NonNullRows(t, c))
      pos4 == p4 * (n - 1)
      lo == pos4 \div 4
      rem == pos4 % 4
  IN  IF rem = 0 THEN 4 * ValueAt(t, c, lo)
      ELSE 4 * ValueAt(t, c, lo) + rem * (ValueAt(t, c, lo + 1) - ValueAt(t, c, lo))

\* SELECT percentile_cont(0.25) WITHIN GROUP (ORDER BY c) as q1,
\*        percentile_cont(0.75) WITHIN GROUP (ORDER BY c) as q3
\* FROM t WHERE c IS NOT NULL            (q1 and q3 in quarters)
IqrQuery(d, name, c) ==
  IF ~TableExists(d, name) \/ ~HasColumn(d[name], c) \/ ~IsNumberColumn(d[name], c) THEN Err
  ELSE LET t == d[name]
       IN  IF NonNullCells(t, c) = {} THEN Ok(<< [q1 |-> 0, q3 |-> 0] >>)
           ELSE Ok(<< [q1 |-> PercentileCont4(t, c, 1), q3 |-> PercentileCont4(t, c, 3)] >>)

\* c < lowerBound OR c > upperBound for the bounds the code interpolates
\* into the statement.  IQR: the bounds are in eighths.  3-sigma: x is
\* more than 3 standard deviations from the mean iff
\* (n*x - sum)^2 * (n - 1) > 9 * n * varNum.
OutOfBounds(x, b) ==
  IF b.method = "IQR"
  THEN 8 * x < b.lower \/ 8 * x > b.upper
  ELSE LET dev == b.n * x - b.sum
       IN  dev # 0 /\ dev * dev * (b.n - 1) > 9 * b.n * b.varNum

\* SELECT COUNT(*) as outlier_count FROM t
\* WHERE c IS NOT NULL AND (c < lowerBound OR c > upperBound)
OutlierQuery(d, name, c, b) ==
  IF ~TableExists(d, name) \/ ~HasColumn(d[name], c) \/ ~IsNumberColumn(d[name], c) THEN Err
  ELSE LET t == d[name]
       IN  Ok(<< [outlier_count |->
                    CountRows(t, { j \in NonNullRows(t, c) : OutOfBounds(Cell(t, c, j).v, b) })] >>)

ExampleLimit == 5

\* SELECT c FROM t WHERE c IS NOT NULL AND (...) ORDER BY ABS(c - mean) DESC LIMIT 5
\* (the number of rows returned; their text is not modelled)
ExampleQuery(d, name, c, b) ==
  LET r == OutlierQuery(d, name, c, b)
  IN  IF ~r.ok THEN Err
      ELSE Ok(<< [rows |-> IF r.rows[1].outlier_count < ExampleLimit
                           THEN r.rows[1].outlier_count ELSE ExampleLimit] >>)

LengthLimit == 20

\* SELECT LENGTH(c) as str_length, COUNT(*) as count FROM t WHERE c IS NOT NULL
\* GROUP BY LENGTH(c) ORDER BY count DESC LIMIT 20
LengthQuery(d, name, c) ==
  IF ~TableExists(d, name) \/ ~HasColumn(d[name], c) THEN Err
  ELSE LET t == d[name]
           lens == { cell.len : cell \in NonNullCells(t, c) }
           cnt == [l \in lens |->
                     CountRows(t, { j \in NonNullRows(t, c) : Cell(t, c, j).len = l })]
           top == TopBy(lens, cnt, LengthLimit)
       IN  IF \E cell \in NonNullCells(t, c) : cell.k # "text" THEN Err
           ELSE Ok([j \in 1..Len(top) |-> [str_length |-> top[j], count |-> cnt[top[j]]]])

\* SELECT COUNT(*) as negative_count FROM t WHERE c < 0
NegativeQuery(d, name, c) ==
  IF ~TableExists(d, name) \/ ~HasColumn(d[name], c) \/ ~IsNumberColumn(d[name], c) THEN Err
  ELSE LET t == d[name]
       IN  Ok(<< [negative_count |->
                    CountRows(t, { j \in NonNullRows(t, c) : Cell(t, c, j).v < 0 })] >>)

\* SELECT COUNT(*) as zero_count FROM t WHERE c = 0
ZeroQuery(d, name, c) ==
  IF ~TableExists(d, name) \/ ~HasColumn(d[name], c) \/ ~IsNumberColumn(d[name], c) THEN Err
  ELSE LET t == d[name]
       IN  Ok(<< [zero_count |->
                    CountRows(t, { j \in NonNullRows(t, c) : Cell(t, c, j).v = 0 })] >>)

\* SELECT COUNT(*) as invalid_order_count FROM t
\* WHERE c1 IS NOT NULL AND c2 IS NOT NULL AND c1 > c2
DateOrderQuery(d, name, c1, c2) ==
  IF ~TableExists(d, name) \/ ~HasColumn(d[name], c1) \/ ~HasColumn(d[name], c2) THEN Err
  ELSE LET t == d[name]
       IN  Ok(<< [invalid_order_count |->
                    CountRows(t, { j \in NonNullRows(t, c1) \cap NonNullRows(t, c2) :
                                   Cell(t, c1, j).v > Cell(t, c2, j).v })] >>)

(***************************************************************************)
(* JavaScript values where their kind decides the outcome                  *)
(***************************************************************************)
JsNumber(n) == [t |-> "number", v |-> n]
JsObject == [t |-> "object", v |-> 0]
JsUndefined == [t |-> "undefined", v |-> 0]

Truthy(x) == x.t = "object" \/ (x.t = "number" /\ x.v # 0)

\* a >= b: an operand that is not a number converts to NaN and the
\* comparison is false
JsGreaterEq(a, b) == a.t = "number" /\ b.t = "number" /\ a.v >= b.v

\* const sevOrder = { low: 1, medium: 2, high: 3, critical: 4 }
sevOrder == [low |-> 1, medium |-> 2, high |-> 3, critical |-> 4]

\* the property names an object literal inherits from Object.prototype
ObjectPrototypeKeys ==
  {"constructor", "toString", "toLocaleString", "valueOf", "hasOwnProperty",
   "isPrototypeOf", "propertyIsEnumerable", "__proto__"}

\* sevOrder[key]
SevOrderGet(key) ==
  IF key \in DOMAIN sevOrder THEN JsNumber(sevOrder[key])
  ELSE IF key \in ObjectPrototypeKeys THEN JsObject
  ELSE JsUndefined

\* const minSeverity = sevOrder[severityThreshold] || 2
MinSeverity(severityThreshold) ==
  LET x == SevOrderGet(severityThreshold) IN IF Truthy(x) THEN x ELSE JsNumber(2)

\* variant: the threshold test is missing
PassesThresholdAlways(a, minSeverity) == TRUE

\* if (sevOrder[a.severity] >= minSeverity) anomalies.push(a)
PassesThreshold(a, minSeverity) == JsGreaterEq(SevOrderGet(a.severity), minSeverity)

FilterBySeverity(found, minSeverity) ==
  SelectSeq(found, LAMBDA a : PassesThreshold(a, minSeverity))

\* (a, b) => sevOrder[b.severity] - sevOrder[a.severity]
SevCompare(a, b) == sevOrder[b.severity] - sevOrder[a.severity]

\* variant: an element goes in front of the elements it compares equal to
RECURSIVE InsertSortedInFront(_, _)
InsertSortedInFront(sorted, a) ==
  IF sorted = << >> THEN << a >>
  ELSE IF SevCompare(Head(sorted), a) < 0
       THEN << Head(sorted) >> \o InsertSortedInFront(Tail(sorted), a)
       ELSE << a >> \o sorted

\* Array.prototype.sort with that comparator: a stable sort (Node.js 24):
\* each element goes behind every element it does not have to precede
RECURSIVE InsertSorted(_, _)
InsertSorted(sorted, a) ==
  IF sorted = << >> THEN << a >>
  ELSE IF SevCompare(Head(sorted), a) <= 0
       THEN << Head(sorted) >> \o InsertSorted(Tail(sorted), a)
       ELSE << a >> \o sorted

RECURSIVE SortBySeverity(_)
SortBySeverity(found) ==
  IF found = << >> THEN << >>
  ELSE InsertSorted(SortBySeverity(SubSeq(found, 1, Len(found) - 1)), found[Len(found)])

(***************************************************************************)
(* Findings                                                                *)
(***************************************************************************)
\* percentage is in hundredths of a percent, 0 when the finding has none;
\* method is the detection method named in the description, "" when none
Anomaly(type, severity, title, affected, percentage, method) ==
  [type |-> type, severity |-> severity, title |-> title, affected_records |-> affected,
   percentage |-> percentage, method |-> method]

\* variant: every kept group is counted with the size of the largest one
TotalDuplicateRecordsByLargest(counts) == Len(counts) * MaxSeq(counts)

\* duplicates.reduce((sum, dup) => sum + Number(dup.duplicate_count || 0), 0)
TotalDuplicateRecords(counts) == SumSeq(counts)

\* variant: the critical threshold at its earlier value of 1000
DuplicateAnomaliesOldThreshold(column, duplicates) ==
  IF Len(duplicates) > 0
  THEN LET counts == [i \in 1..Len(duplicates) |-> duplicates[i].duplicate_count]
           maxDuplicates == MaxSeq(counts)
           severity == IF maxDuplicates > 1000 THEN "critical"
                       ELSE IF maxDuplicates > 10 THEN "medium"
                       ELSE "low"
       IN  << [type |-> "duplicate", severity |-> severity,
               title |-> <<"Duplicate Values in ", column>>,
               affected_records |-> SumSeq(counts), percentage |-> 0, method |-> ""] >>
  ELSE << >>

\* the body of the loop of checkDuplicates once the query has resolved
DuplicateAnomalies(column, duplicates) ==
  IF Len(duplicates) > 0
  THEN LET counts == [i \in 1..Len(duplicates) |-> duplicates[i].duplicate_count]
           totalDuplicateRecords == TotalDuplicateRecords(counts)
           maxDuplicates == MaxSeq(counts)
           severity == IF maxDuplicates > 50000 THEN "critical"
                       ELSE IF maxDuplicates > 1000 THEN "high"
                       ELSE IF maxDuplicates > 10 THEN "medium"
                       ELSE "low"
        IN  << Anomaly("duplicate", severity, <<"Duplicate Values in ", column>>,
                      totalDuplicateRecords, 0, "") >>
  ELSE << >>

\* column.column_name where column is a string: a string has no such property
StringColumnName(column) == "undefined"

\* variant: a low severity is never reported, whatever the null count
NullAnomaliesSeverityOnly(column, result) ==
  LET nullCount == result[1].null_count
      nullPercentage == result[1].null_percentage
      severity == IF nullPercentage > 5000 THEN "critical"
                  ELSE IF nullPercentage > 2500 THEN "high"
                  ELSE IF nullPercentage > 1000 THEN "medium"
                  ELSE "low"
  IN  IF nullCount > 0 /\ severity # "low"
      THEN << [type |-> "null_values", severity |-> severity,
               title |-> <<"High Null Rate in ", StringColumnName(column)>>,
               affected_records |-> nullCount, percentage |-> nullPercentage,
               method |-> ""] >>
      ELSE << >>

\* the body of the loop of checkNullValues once the query has resolved
NullAnomalies(column, result) ==
  LET nullCount == result[1].null_count
      nullPercentage == result[1].null_percentage
      severity == IF nullPercentage > 5000 THEN "critical"
                  ELSE IF nullPercentage > 2500 THEN "high"
                  ELSE IF nullPercentage > 1000 THEN "medium"
                  ELSE "low"
  IN  IF nullCount > 0 /\ (severity # "low" \/ nullCount > 100)
      THEN << Anomaly("null_values", severity,
                      <<"High Null Rate in ", StringColumnName(column)>>, nullCount,
                      nullPercentage, "") >>
      ELSE << >>

(***************************************************************************)
(* The server and one detect_anomalies call                                *)
(***************************************************************************)
VARIABLES
  db,            \* the DuckDB database: table name -> table, or NoTable
  loadedTables,  \* this.loadedTables: table name -> source it was loaded from
  pc,            \* where the call in progress stands
  args,          \* the arguments of the call in progress
  schema,        \* generateAnomalyReport: const schema
  totalRows,     \* generateAnomalyReport: const totalRows
  anomalies,     \* generateAnomalyReport: const anomalies
  det,           \* the frame of the detector that is running
  outstanding,   \* queries handed to db.all whose callback has not run yet
  failures,      \* engine failures injected into the call so far
  result,        \* what the call returned or threw
  queryLog,      \* history: the queries the call has issued, in order
  detLog,        \* history: detector calls and returns, in order
  produced,      \* history: every finding a detector has pushed, in order
  failed,        \* history: <<detector, column>> pairs whose query was rejected
  calls,         \* the calls of the other tools: slot -> frame of the call
  loads,         \* number of load calls issued so far
  successes      \* history: table name -> source of the latest load that succeeded

vars == << db, loadedTables, pc, args, schema, totalRows, anomalies, det,
           outstanding, failures, result, queryLog, detLog, produced, failed,
           calls, loads, successes >>

Undefined == "<undefined>"

SeverityChoices == {Undefined, "low", "medium", "high", "critical", "urgent", "constructor"}

FocusChoices == { << >>, <<"Amount", "code">>, <<"missing", "label">>, <<"c3", "c8">>,
                  <<"c1", "c2", "c3", "c4">> }

DefaultAnomalyTypes == {"statistical", "duplicates", "nulls", "outliers", "patterns"}

AnomalyTypeChoices ==
  { {}, DefaultAnomalyTypes, {"business_logic"}, {"duplicates", "business_logic"},
    {"nulls", "outliers"}, DefaultAnomalyTypes \cup {"business_logic"} }

NoArgs == [table_name |-> "", severity_threshold |-> "", focus_columns |-> << >>,
           anomaly_types |-> {}]

NoTmp == [stats |-> << >>, b |-> << >>, outlierCount |-> 0, severity |-> "",
          negative |-> "none", zero |-> "none", zeroCount |-> 0]

NoDet == [name |-> "none", cols |-> << >>, i |-> 0, out |-> << >>, step |-> "", tmp |-> NoTmp]

NoResult == [kind |-> "none", code |-> "", message |-> << >>, report |-> << >>]

\* an Error: its message is a fixed text and, where the code names one, a file
Error(text, file) == [text |-> text, file |-> file]

\* throw new McpError(code, `${prefix}${error.message}`)
McpError(code, prefix, error) ==
  [kind |-> "McpError", code |-> code, message |-> <<prefix, error.text, error.file>>,
   report |-> << >>]

\* return { content: [{ type: 'text', text }] }
Content(text) == [kind |-> "content", code |-> "", message |-> << >>, report |-> text]

\* the rejection of a query by the engine
EngineError == Error("engine error", << >>)

\* the requests a client may have in flight besides detect_anomalies
Slots == {1, 2}

NoCall == [tool |-> "none", args |-> << >>, pc |-> "idle", tableName |-> << >>,
           files |-> << >>, i |-> 0, wrote |-> NoTable, before |-> << >>,
           result |-> NoResult]

NoCalls == [i \in Slots |-> NoCall]

\* const totalRows before its initializer has run
NotFetched == -1

Query(kind, column) == [kind |-> kind, column |-> column]

Init ==
  /\ db \in [TableNames -> Fixtures \cup {NoTable}]
  /\ db["u"] = NoTable
  /\ loadedTables = [n \in {m \in TableNames : db[m] # NoTable /\ db[m] # TableEmpty} |-> "file.csv"]
  /\ pc = "idle"
  /\ args = NoArgs
  /\ schema = << >>
  /\ totalRows = NotFetched
  /\ anomalies = << >>
  /\ det = NoDet
  /\ outstanding = {}
  /\ failures = 0
  /\ result = NoResult
  /\ queryLog = << >>
  /\ detLog = << >>
  /\ produced = << >>
  /\ failed = {}
  /\ calls = NoCalls
  /\ loads = 0
  /\ successes = loadedTables

\* the engine may reject any query; at most MaxFailures times per call
FailChoices == IF failures < MaxFailures THEN {FALSE, TRUE} ELSE {FALSE}

Outcome(r, fail) == IF fail THEN Err ELSE r

Injected(fail) == failures' = IF fail THEN failures + 1 ELSE failures

\* catch (error) { throw new McpError(InternalError, `Anomaly detection failed: ...`) }
Throw ==
  /\ result' = McpError("InternalError", "Anomaly detection failed: ", EngineError)
  /\ pc' = "done"

\* detectAnomalies(args): destructure with defaults, call generateAnomalyReport,
\* which issues DESCRIBE.  A call starts when the connection is quiet.
detectAnomalies(a) ==
  /\ pc = "idle"
  /\ outstanding = {}
  /\ args' = [a EXCEPT !.severity_threshold = IF @ = Undefined THEN "medium" ELSE @]
  /\ pc' = "schema"
  /\ outstanding' = {Query("DESCRIBE", "")}
  /\ queryLog' = <<"DESCRIBE">>
  /\ \A i \in Slots : calls[i].pc \in {"idle", "returned"}
  /\ calls' = NoCalls
  /\ UNCHANGED << loads, successes, db, loadedTables, schema, totalRows, anomalies, det,
                  failures, result, detLog, produced, failed >>

\* const schema = await this.executeQuery(`DESCRIBE ${tableName}`), then the
\* row count query is issued
FetchSchema ==
  /\ pc = "schema"
  /\ \E fail \in FailChoices :
       LET r == Outcome(DescribeQuery(db, args.table_name), fail)
       IN  /\ Injected(fail)
           /\ IF r.ok
              THEN /\ schema' = r.rows
                   /\ pc' = "count"
                   /\ outstanding' = {Query("COUNT", "")}
                   /\ queryLog' = Append(queryLog, "COUNT")
                   /\ UNCHANGED result
              ELSE /\ Throw
                   /\ outstanding' = {}
                   /\ UNCHANGED << schema, queryLog >>
  /\ UNCHANGED << calls, loads, successes, db, loadedTables, args, totalRows, anomalies, det, detLog, produced, failed >>

\* const totalRows = (await this.executeQuery(`SELECT COUNT(*) ...`))[0].count
FetchTotalRows ==
  /\ pc = "count"
  /\ \E fail \in FailChoices :
       LET r == Outcome(CountQuery(db, args.table_name), fail)
       IN  /\ Injected(fail)
           /\ IF r.ok
              THEN /\ totalRows' = r.rows[1].count
                   /\ pc' = "at_duplicates"
                   /\ UNCHANGED result
              ELSE /\ Throw
                   /\ UNCHANGED totalRows
  /\ outstanding' = {}
  /\ UNCHANGED << calls, loads, successes, db, loadedTables, args, schema, anomalies, det, queryLog, detLog,
                  produced, failed >>

\* variant: a detector fetches the row count again before its first query
CallDetectorRecount(name, cols, step, queries, at) ==
  /\ det' = [name |-> name, cols |-> cols, i |-> 1, out |-> << >>, step |-> step,
             tmp |-> NoTmp]
  /\ outstanding' = outstanding \cup { queries[j] : j \in 1..Len(queries) }
  /\ queryLog' = queryLog \o <<"COUNT">> \o [j \in 1..Len(queries) |-> queries[j].kind]
  /\ detLog' = Append(detLog, <<"call", name>>)
  /\ pc' = at
  /\ UNCHANGED << anomalies, failures, produced, failed >>

\* a detector is called and issues its first queries
CallDetector(name, cols, step, queries, at) ==
  /\ det' = [name |-> name, cols |-> cols, i |-> 1, out |-> << >>, step |-> step,
             tmp |-> NoTmp]
  /\ outstanding' = outstanding \cup { queries[j] : j \in 1..Len(queries) }
  /\ queryLog' = queryLog \o [j \in 1..Len(queries) |-> queries[j].kind]
  /\ detLog' = Append(detLog, <<"call", name>>)
  /\ pc' = at
  /\ UNCHANGED << anomalies, failures, produced, failed >>

\* a detector returns `out`; the aggregator pushes what passes the threshold
ReturnDetector(name, out, next, log) ==
  /\ anomalies' = anomalies \o FilterBySeverity(out, MinSeverity(args.severity_threshold))
  /\ det' = NoDet
  /\ detLog' = log \o << <<"return", name>> >>
  /\ pc' = next

\* the detector is not selected, or has no column to examine
SkipDetector(name, selected, next) ==
  /\ pc' = next
  /\ detLog' = IF selected THEN detLog \o << <<"call", name>>, <<"return", name>> >> ELSE detLog
  /\ UNCHANGED << anomalies, det, outstanding, failures, queryLog, produced, failed >>

ColumnNames(sch) == [i \in 1..Len(sch) |-> sch[i].column_name]

\* variant: the duplicate detector runs whatever the anomaly types are
SelectedDuplicatesAlways(name, anomalyTypes) ==
  CASE name = "duplicates" -> TRUE
    [] name = "nulls" -> "nulls" \in anomalyTypes
    [] name = "outliers" -> "statistical" \in anomalyTypes \/ "outliers" \in anomalyTypes
    [] name = "patterns" -> "patterns" \in anomalyTypes
    [] name = "business_logic" -> "business_logic" \in anomalyTypes

\* the conditions under which generateAnomalyReport calls a detector
Selected(name, anomalyTypes) ==
  CASE name = "duplicates" -> "duplicates" \in anomalyTypes
    [] name = "nulls" -> "nulls" \in anomalyTypes
    [] name = "outliers" -> "statistical" \in anomalyTypes \/ "outliers" \in anomalyTypes
    [] name = "patterns" -> "patterns" \in anomalyTypes
    [] name = "business_logic" -> "business_logic" \in anomalyTypes

\* checkDuplicates: columnsToCheck.slice(0, 8)
DuplicateColumns(sch, focusColumns) ==
  Slice(IF Len(focusColumns) > 0 THEN focusColumns ELSE ColumnNames(sch), 0, 8)

\* checkNullValues: columnsToCheck
NullColumns(sch, focusColumns) ==
  IF Len(focusColumns) > 0 THEN focusColumns ELSE ColumnNames(sch)

\* variant: the catch block gives up the findings of the detector
CatchDetectorErrorDrops(out) == << >>

\* catch (error) { console.error(...) }: the findings pushed so far stay
CatchDetectorError(out) == out

\* what the catch block of a per-column loop leaves behind
Caught(name, column, ok) == failed' = IF ok THEN failed ELSE failed \cup {<<name, column>>}

\* variant: the query of the next column is issued without awaiting the last one
NextColumnNoAwait(name, out, kind, next) ==
  IF det.i < Len(det.cols)
  THEN /\ det' = [det EXCEPT !.i = @ + 1, !.out = out, !.step = kind, !.tmp = NoTmp]
       /\ outstanding' = outstanding \cup {Query(kind, det.cols[det.i + 1])}
       /\ queryLog' = Append(queryLog, kind)
       /\ UNCHANGED << anomalies, detLog, pc >>
  ELSE /\ ReturnDetector(name, out, next, detLog)
       /\ outstanding' = {}
       /\ UNCHANGED queryLog

\* the loop of a one-query-per-column detector moves on: it issues the query
\* of the next column, or the detector returns
NextColumn(name, out, kind, next) ==
  IF det.i < Len(det.cols)
  THEN /\ det' = [det EXCEPT !.i = @ + 1, !.out = out, !.step = kind, !.tmp = NoTmp]
       /\ outstanding' = {Query(kind, det.cols[det.i + 1])}
       /\ queryLog' = Append(queryLog, kind)
       /\ UNCHANGED << anomalies, detLog, pc >>
  ELSE /\ ReturnDetector(name, out, next, detLog)
       /\ outstanding' = {}
       /\ UNCHANGED queryLog

\* if (anomalyTypes.includes('duplicates')) ... checkDuplicates(tableName, schema, focusColumns)
checkDuplicates ==
  /\ pc = "at_duplicates"
  /\ LET selected == Selected("duplicates", args.anomaly_types)
         cols == DuplicateColumns(schema, args.focus_columns)
     IN  IF selected /\ cols # << >>
         THEN CallDetector("duplicates", cols, "duplicate", << Query("duplicate", cols[1]) >>,
                           "in_duplicates")
         ELSE SkipDetector("duplicates", selected, "at_nulls")
  /\ UNCHANGED << calls, loads, successes, db, loadedTables, args, schema, totalRows, result >>

\* the duplicate query of one column settles
DuplicateQueryDone ==
  /\ pc = "in_duplicates"
  /\ \E fail \in FailChoices :
       LET column == det.cols[det.i]
           r == Outcome(DuplicateQuery(db, args.table_name, column), fail)
           found == IF r.ok THEN DuplicateAnomalies(column, r.rows) ELSE << >>
       IN  /\ Injected(fail)
           /\ Caught("duplicates", column, r.ok)
           /\ produced' = produced \o found
           /\ NextColumn("duplicates", IF r.ok THEN det.out \o found ELSE CatchDetectorError(det.out),
                         "duplicate", "at_nulls")
  /\ UNCHANGED << calls, loads, successes, db, loadedTables, args, schema, totalRows, result >>

\* if (anomalyTypes.includes('nulls')) ... checkNullValues(tableName, schema, totalRows, focusColumns)
checkNullValues ==
  /\ pc = "at_nulls"
  /\ LET selected == Selected("nulls", args.anomaly_types)
         columnsToCheck == NullColumns(schema, args.focus_columns)
     IN  IF selected /\ columnsToCheck # << >>
         THEN CallDetector("nulls", columnsToCheck, "null", << Query("null", columnsToCheck[1]) >>,
                           "in_nulls")
         ELSE SkipDetector("nulls", selected, "at_outliers")
  /\ UNCHANGED << calls, loads, successes, db, loadedTables, args, schema, totalRows, result >>

\* the null query of one column settles
NullQueryDone ==
  /\ pc = "in_nulls"
  /\ \E fail \in FailChoices :
       LET column == det.cols[det.i]
           r == Outcome(NullQuery(db, args.table_name, column), fail)
           found == IF r.ok THEN NullAnomalies(column, r.rows) ELSE << >>
       IN  /\ Injected(fail)
           /\ Caught("nulls", column, r.ok)
           /\ produced' = produced \o found
           /\ NextColumn("nulls", IF r.ok THEN det.out \o found ELSE CatchDetectorError(det.out),
                         "null", "at_outliers")
  /\ UNCHANGED << calls, loads, successes, db, loadedTables, args, schema, totalRows, result >>


(***************************************************************************)
(* Statistical outliers                                                    *)
(***************************************************************************)
\* ['DOUBLE', 'BIGINT', 'INTEGER', 'DECIMAL'].includes(col.column_type.toUpperCase())
\* (DESCRIBE reports type names in upper case)
NumericTypes == {"DOUBLE", "BIGINT", "INTEGER", "DECIMAL"}

NumericColumns(sch) == SelectSeq(sch, LAMBDA col : col.column_type \in NumericTypes)

\* checkStatisticalOutliers: columnsToCheck.slice(0, 5)
OutlierColumns(sch, focusColumns) ==
  LET numericColumns == ColumnNames(NumericColumns(sch))
  IN  Slice(IF Len(focusColumns) > 0
            THEN SelectSeq(numericColumns, LAMBDA c : Includes(focusColumns, c))
            ELSE numericColumns, 0, 5)

\* variant: the 3-sigma method whatever the size of the dataset
SmallDatasetNever(total_count) == FALSE

\* if (Number(total_count) < 30): the IQR method for small datasets
SmallDataset(total_count) == total_count < 30

\* variant: fences at twice the interquartile range
IqrBoundsTwice(row) ==
  LET iqr == row.q3 - row.q1
  IN  [method |-> "IQR", lower |-> 2 * row.q1 - 4 * iqr, upper |-> 2 * row.q3 + 4 * iqr,
       n |-> 0, sum |-> 0, varNum |-> 0]

\* q1 - 1.5 * iqr and q3 + 1.5 * iqr, in eighths (q1 and q3 are in quarters)
IqrBounds(row) ==
  LET iqr == row.q3 - row.q1
  IN  [method |-> "IQR", lower |-> 2 * row.q1 - 3 * iqr, upper |-> 2 * row.q3 + 3 * iqr,
       n |-> 0, sum |-> 0, varNum |-> 0]

\* mean - 3 * stddev and mean + 3 * stddev
SigmaBounds(stats) ==
  [method |-> "3-sigma", lower |-> 0, upper |-> 0,
   n |-> stats.total_count, sum |-> stats.sum, varNum |-> stats.varNum]

\* variant: the boundaries 5% and 1% belong to the higher severity
OutlierSeverityInclusive(outlierCount, total_count) ==
  IF outlierCount * 100 >= 5 * total_count THEN "high"
  ELSE IF outlierCount * 100 >= 1 * total_count THEN "medium"
  ELSE "low"

\* outlierPercentage = (outlierCount / Number(total_count)) * 100
OutlierSeverity(outlierCount, total_count) ==
  IF outlierCount * 100 > 5 * total_count THEN "high"
  ELSE IF outlierCount * 100 > 1 * total_count THEN "medium"
  ELSE "low"

OutlierAnomaly(column, outlierCount, total_count, method) ==
  Anomaly("statistical_outlier", OutlierSeverity(outlierCount, total_count),
          <<"Statistical Outliers in ", column>>, outlierCount,
          RoundPct(outlierCount, total_count), method)

(***************************************************************************)
(* String length patterns                                                  *)
(***************************************************************************)
\* column_type.toUpperCase().includes('VARCHAR') || ...includes('TEXT')
StringTypes == {"VARCHAR", "TEXT"}

StringColumns(sch) == SelectSeq(sch, LAMBDA col : col.column_type \in StringTypes)

\* checkPatternAnomalies: columnsToCheck
PatternColumns(sch, focusColumns) ==
  LET stringColumns == ColumnNames(StringColumns(sch))
  IN  IF Len(focusColumns) > 0
      THEN SelectSeq(stringColumns, LAMBDA c : Includes(focusColumns, c))
      ELSE Slice(stringColumns, 0, 3)

\* DuckDB hands BIGINT results (COUNT(*), LENGTH) to JavaScript as BigInt
JsBigInt(n) == [t |-> "bigint", v |-> n]
TypeError == [t |-> "TypeError", v |-> 0]

\* a + b: mixing a BigInt and a number throws a TypeError
JsAdd(a, b) ==
  IF a.t = "TypeError" \/ b.t = "TypeError" \/ a.t # b.t THEN TypeError
  ELSE [t |-> a.t, v |-> a.v + b.v]

\* rows.reduce((sum, r) => sum + r.count, initial)
RECURSIVE ReduceCount(_, _)
ReduceCount(rows, sum) ==
  IF rows = << >> THEN sum
  ELSE ReduceCount(Tail(rows), JsAdd(sum, JsBigInt(Head(rows).count)))

\* the body of the loop of checkPatternAnomalies once the query has resolved
PatternAnomalies(column, lengthResults) ==
  LET extremeLengths ==
        SelectSeq(lengthResults, LAMBDA r : r.str_length > 200 \/ r.str_length < 1)
      affectedCount == ReduceCount(extremeLengths, JsNumber(0))
  IN  IF Len(extremeLengths) > 0 /\ affectedCount # TypeError
      THEN << Anomaly("length_pattern", IF affectedCount.v > 100 THEN "medium" ELSE "low",
                      <<"Unusual Length Patterns in ", column>>, affectedCount.v, 0, "") >>
      ELSE << >>

(***************************************************************************)
(* Business logic                                                          *)
(***************************************************************************)
\* the spelling of the column names of the fixtures
Spelling(name) ==
  CASE name = "value" -> <<"v", "a", "l", "u", "e">>
    [] name = "label" -> <<"l", "a", "b", "e", "l">>
    [] name = "code" -> <<"c", "o", "d", "e">>
    [] name = "note" -> <<"n", "o", "t", "e">>
    [] name = "price" -> <<"p", "r", "i", "c", "e">>
    [] name = "Amount" -> <<"A", "m", "o", "u", "n", "t">>
    [] name = "start_dt" -> <<"s", "t", "a", "r", "t", "_", "d", "t">>
    [] name = "end_dt" -> <<"e", "n", "d", "_", "d", "t">>
    [] name = "amount" -> <<"a", "m", "o", "u", "n", "t">>
    [] name = "charge" -> <<"c", "h", "a", "r", "g", "e">>
    [] name = "total_amount" -> <<"t", "o", "t", "a", "l", "_", "a", "m", "o", "u", "n", "t">>
    [] OTHER -> <<"?">>

\* String.prototype.toLowerCase, on the letters that occur
ToLowerCase(chars) ==
  [i \in 1..Len(chars) |-> CASE chars[i] = "A" -> "a" [] chars[i] = "P" -> "p"
                             [] chars[i] = "C" -> "c" [] chars[i] = "X" -> "x"
                             [] chars[i] = "L" -> "l" [] chars[i] = "S" -> "s"
                             [] OTHER -> chars[i]]

\* String.prototype.includes
StringIncludes(chars, part) ==
  \E i \in 1..(Len(chars) - Len(part) + 1) : SubSeq(chars, i, i + Len(part) - 1) = part

IsAmountColumn(col) ==
  LET lower == ToLowerCase(Spelling(col.column_name))
  IN  \/ StringIncludes(lower, Spelling("amount"))
      \/ StringIncludes(lower, Spelling("charge"))
      \/ StringIncludes(lower, Spelling("price"))

AmountColumns(sch) == SelectSeq(sch, IsAmountColumn)

\* column_type.toUpperCase().includes('DATE') || ...includes('TIMESTAMP')
DateTypes == {"DATE", "TIMESTAMP", "TIMESTAMP WITH TIME ZONE"}

DateColumns(sch) == SelectSeq(sch, LAMBDA col : col.column_type \in DateTypes)

\* variant: 50 zero values are reported too
ZeroAnomaliesInclusive(column, zeroCount) ==
  IF zeroCount >= 50
  THEN << [type |-> "business_logic", severity |-> IF zeroCount > 500 THEN "high" ELSE "medium",
           title |-> <<"Excessive Zero Values in ", column>>, affected_records |-> zeroCount,
           percentage |-> 0, method |-> ""] >>
  ELSE << >>

\* if (zeroCount > 50) anomalies.push(...)
ZeroAnomalies(column, zeroCount) ==
  IF zeroCount > 50
  THEN << Anomaly("business_logic", IF zeroCount > 500 THEN "high" ELSE "medium",
                  <<"Excessive Zero Values in ", column>>, zeroCount, 0, "") >>
  ELSE << >>

\* variant: the last two date columns are compared
ComparedDatesLast(dateColumns) ==
  << dateColumns[Len(dateColumns) - 1], dateColumns[Len(dateColumns)] >>

\* const dateColumn1 = dateColumns[0].column_name, dateColumn2 = dateColumns[1].column_name
ComparedDates(dateColumns) == << dateColumns[1], dateColumns[2] >>

\* variant: more than 100 inverted rows are critical
DateOrderAnomaliesCritical(invalidOrderCount) ==
  IF invalidOrderCount > 0
  THEN << [type |-> "business_logic",
           severity |-> IF invalidOrderCount > 100 THEN "critical" ELSE "medium",
           title |-> <<"Invalid Date Sequence", "">>, affected_records |-> invalidOrderCount,
           percentage |-> 0, method |-> ""] >>
  ELSE << >>

\* if (invalidOrderCount > 0) anomalies.push(...)
DateOrderAnomalies(invalidOrderCount) ==
  IF invalidOrderCount > 0
  THEN << Anomaly("business_logic", IF invalidOrderCount > 100 THEN "high" ELSE "medium",
                  <<"Invalid Date Sequence", "">>, invalidOrderCount, 0, "") >>
  ELSE << >>

(***************************************************************************)
(* The remaining detectors as steps of the call                            *)
(***************************************************************************)
\* the detector awaits a further query about the same column
AwaitNext(kind, tmp) ==
  /\ det' = [det EXCEPT !.step = kind, !.tmp = tmp]
  /\ outstanding' = {Query(kind, det.cols[det.i])}
  /\ queryLog' = Append(queryLog, kind)
  /\ UNCHANGED << anomalies, detLog, pc, produced >>

\* variant: the outlier detector runs once for each of its two names
AfterOutliersPerName(anomalyTypes, log) ==
  IF /\ {"statistical", "outliers"} \subseteq anomalyTypes
     /\ \A i \in 1..Len(log) : log[i] # <<"return", "outliers">>
  THEN "at_outliers" ELSE "at_patterns"

\* the two names share one if statement: after the outlier detector comes
\* the pattern analysis
AfterOutliers(anomalyTypes, log) == "at_patterns"

\* if (anomalyTypes.includes('statistical') || anomalyTypes.includes('outliers')) ...
checkStatisticalOutliers ==
  /\ pc = "at_outliers"
  /\ LET selected == Selected("outliers", args.anomaly_types)
         cols == OutlierColumns(schema, args.focus_columns)
     IN  IF selected /\ cols # << >>
         THEN CallDetector("outliers", cols, "stats", << Query("stats", cols[1]) >>,
                           "in_outliers")
         ELSE SkipDetector("outliers", selected, AfterOutliers(args.anomaly_types, detLog))
  /\ UNCHANGED << calls, loads, successes, db, loadedTables, args, schema, totalRows, result >>

\* one of the queries about a numeric column settles: statistics, quartiles,
\* outlier count, examples
OutlierQueryDone ==
  /\ pc = "in_outliers"
  /\ \E fail \in FailChoices :
       LET column == det.cols[det.i]
           tn == args.table_name
           r == Outcome(CASE det.step = "stats" -> StatsQuery(db, tn, column)
                          [] det.step = "iqr" -> IqrQuery(db, tn, column)
                          [] det.step = "outlier" -> OutlierQuery(db, tn, column, det.tmp.b)
                          [] det.step = "example" -> ExampleQuery(db, tn, column, det.tmp.b),
                        fail)
           skip == /\ produced' = produced
                   /\ NextColumn("outliers", det.out, "stats", AfterOutliers(args.anomaly_types, detLog))
           caught == /\ produced' = produced
                     /\ NextColumn("outliers", CatchDetectorError(det.out), "stats",
                                   AfterOutliers(args.anomaly_types, detLog))
       IN  /\ Injected(fail)
           /\ Caught("outliers", column, r.ok)
           /\ IF ~r.ok THEN caught
              ELSE CASE det.step = "stats" ->
                          LET stats == r.rows[1]
                          IN  IF ~stats.stddevNull /\ stats.varNum > 0
                              THEN IF SmallDataset(stats.total_count)
                                   THEN AwaitNext("iqr", [det.tmp EXCEPT !.stats = stats])
                                   ELSE AwaitNext("outlier",
                                          [det.tmp EXCEPT !.stats = stats,
                                                          !.b = SigmaBounds(stats)])
                              ELSE skip
                     [] det.step = "iqr" ->
                          AwaitNext("outlier", [det.tmp EXCEPT !.b = IqrBounds(r.rows[1])])
                     [] det.step = "outlier" ->
                          IF r.rows[1].outlier_count > 0
                          THEN AwaitNext("example",
                                 [det.tmp EXCEPT !.outlierCount = r.rows[1].outlier_count])
                          ELSE skip
                     [] det.step = "example" ->
                          LET found == << OutlierAnomaly(column, det.tmp.outlierCount,
                                            det.tmp.stats.total_count, det.tmp.b.method) >>
                          IN  /\ produced' = produced \o found
                              /\ NextColumn("outliers", det.out \o found, "stats", AfterOutliers(args.anomaly_types, detLog))
  /\ UNCHANGED << calls, loads, successes, db, loadedTables, args, schema, totalRows, result >>

\* if (anomalyTypes.includes('patterns')) ... checkPatternAnomalies(tableName, schema, focusColumns)
checkPatternAnomalies ==
  /\ pc = "at_patterns"
  /\ LET selected == Selected("patterns", args.anomaly_types)
         columnsToCheck == PatternColumns(schema, args.focus_columns)
     IN  IF selected /\ columnsToCheck # << >>
         THEN CallDetector("patterns", columnsToCheck, "length",
                           << Query("length", columnsToCheck[1]) >>, "in_patterns")
         ELSE SkipDetector("patterns", selected, "at_business")
  /\ UNCHANGED << calls, loads, successes, db, loadedTables, args, schema, totalRows, result >>

\* the length query of one column settles
LengthQueryDone ==
  /\ pc = "in_patterns"
  /\ \E fail \in FailChoices :
       LET column == det.cols[det.i]
           r == Outcome(LengthQuery(db, args.table_name, column), fail)
           found == IF r.ok THEN PatternAnomalies(column, r.rows) ELSE << >>
       IN  /\ Injected(fail)
           /\ Caught("patterns", column, r.ok)
           /\ produced' = produced \o found
           /\ NextColumn("patterns", IF r.ok THEN det.out \o found ELSE CatchDetectorError(det.out),
                         "length", "at_business")
  /\ UNCHANGED << calls, loads, successes, db, loadedTables, args, schema, totalRows, result >>

\* Promise.all([executeQuery(negativeQuery), executeQuery(zeroQuery)]) for one column
AmountQueries(column) == << Query("negative", column), Query("zero", column) >>

\* the date consistency check of checkBusinessLogicAnomalies: the query is
\* issued when the schema has two date columns, else the detector returns
DateCheck(out, called) ==
  LET dateColumns == ColumnNames(DateColumns(schema))
      log == IF called THEN detLog ELSE Append(detLog, <<"call", "business_logic">>)
  IN  IF Len(dateColumns) >= 2
      THEN /\ det' = [name |-> "business_logic", cols |-> dateColumns, i |-> 1, out |-> out,
                      step |-> "dateorder", tmp |-> NoTmp]
           /\ outstanding' = {Query("dateorder", dateColumns[1])}
           /\ queryLog' = Append(queryLog, "dateorder")
           /\ detLog' = log
           /\ pc' = "in_business"
           /\ UNCHANGED anomalies
      ELSE /\ ReturnDetector("business_logic", out, "at_sort", log)
           /\ outstanding' = {}
           /\ UNCHANGED queryLog

\* if (anomalyTypes.includes('business_logic')) ... checkBusinessLogicAnomalies(tableName, schema)
checkBusinessLogicAnomalies ==
  /\ pc = "at_business"
  /\ LET selected == Selected("business_logic", args.anomaly_types)
         amountColumns == ColumnNames(AmountColumns(schema))
     IN  IF ~selected THEN SkipDetector("business_logic", FALSE, "at_sort")
         ELSE IF amountColumns # << >>
         THEN CallDetector("business_logic", amountColumns, "amount",
                           AmountQueries(amountColumns[1]), "in_business")
         ELSE DateCheck(<< >>, FALSE) /\ UNCHANGED << failures, produced, failed >>
  /\ UNCHANGED << calls, loads, successes, db, loadedTables, args, schema, totalRows, result >>

\* one of the outstanding queries of the business-logic detector settles.
\* Promise.all rejects with the first rejection and resolves with the last
\* resolution; the whole body sits in one try block.
BusinessQueryDone ==
  /\ pc = "in_business"
  /\ \E q \in outstanding, fail \in FailChoices :
       LET column == q.column
           tn == args.table_name
           r == Outcome(CASE q.kind = "negative" -> NegativeQuery(db, tn, column)
                          [] q.kind = "zero" -> ZeroQuery(db, tn, column)
                          [] q.kind = "dateorder" ->
                               DateOrderQuery(db, tn, ComparedDates(det.cols)[1],
                                              ComparedDates(det.cols)[2]),
                        fail)
           caught == /\ ReturnDetector("business_logic", CatchDetectorError(det.out),
                                        "at_sort", detLog)
                     /\ outstanding' = outstanding \ {q}
                     /\ UNCHANGED << queryLog, produced >>
       IN  /\ Injected(fail)
           /\ Caught("business_logic", column, r.ok)
           /\ IF ~r.ok THEN caught
              ELSE IF q.kind = "dateorder"
              THEN LET found == DateOrderAnomalies(r.rows[1].invalid_order_count)
                   IN  /\ produced' = produced \o found
                       /\ ReturnDetector("business_logic", det.out \o found, "at_sort", detLog)
                       /\ outstanding' = {}
                       /\ UNCHANGED queryLog
              ELSE LET tmp == IF q.kind = "negative"
                              THEN [det.tmp EXCEPT !.negative = "resolved"]
                              ELSE [det.tmp EXCEPT !.zero = "resolved",
                                                   !.zeroCount = r.rows[1].zero_count]
                   IN  IF tmp.negative = "resolved" /\ tmp.zero = "resolved"
                       THEN LET found == ZeroAnomalies(det.cols[det.i], tmp.zeroCount)
                                out == det.out \o found
                            IN  /\ produced' = produced \o found
                                /\ IF det.i < Len(det.cols)
                                   THEN /\ det' = [det EXCEPT !.i = @ + 1, !.out = out,
                                                              !.tmp = NoTmp]
                                        /\ outstanding' =
                                             { AmountQueries(det.cols[det.i + 1])[j] : j \in 1..2 }
                                        /\ queryLog' = queryLog \o <<"negative", "zero">>
                                        /\ UNCHANGED << anomalies, detLog, pc >>
                                   ELSE DateCheck(out, TRUE)
                       ELSE /\ det' = [det EXCEPT !.tmp = tmp]
                            /\ outstanding' = outstanding \ {q}
                            /\ UNCHANGED << anomalies, detLog, pc, queryLog, produced >>
  /\ UNCHANGED << calls, loads, successes, db, loadedTables, args, schema, totalRows, result >>

\* a query whose Promise.all has already rejected settles; nobody listens
OrphanQueryDone ==
  /\ pc \in {"at_sort", "done", "idle"}
  /\ \E q \in outstanding : outstanding' = outstanding \ {q}
  /\ UNCHANGED << calls, loads, successes, db, loadedTables, pc, args, schema, totalRows, anomalies, det, failures,
                  result, queryLog, detLog, produced, failed >>

Report(found) ==
  [table |-> args.table_name, rows |-> totalRows, threshold |-> args.severity_threshold,
   noAnomalies |-> Len(found) = 0, findings |-> found]

\* variant: the call registers the analysed table as loaded
SortAndFormatRegisters ==
  /\ pc = "at_sort"
  /\ result' = Content(Report(SortBySeverity(anomalies)))
  /\ pc' = "done"
  /\ loadedTables' = (args.table_name :> "detect_anomalies") @@ loadedTables
  /\ UNCHANGED << calls, loads, successes, db, args, schema, totalRows, anomalies, det, outstanding,
                  failures, queryLog, detLog, produced, failed >>

\* anomalies.sort(...), format the report, return { content: [{ type: 'text', text: report }] }
SortAndFormat ==
  /\ pc = "at_sort"
  /\ result' = Content(Report(SortBySeverity(anomalies)))
  /\ pc' = "done"
  /\ UNCHANGED << calls, loads, successes, db, loadedTables, args, schema, totalRows, anomalies, det, outstanding,
                  failures, queryLog, detLog, produced, failed >>

\* the response has been delivered; nothing of the call remains
Respond ==
  /\ pc = "done"
  /\ pc' = "idle"
  /\ args' = NoArgs
  /\ schema' = << >>
  /\ totalRows' = NotFetched
  /\ anomalies' = << >>
  /\ det' = NoDet
  /\ failures' = 0
  /\ result' = NoResult
  /\ queryLog' = << >>
  /\ detLog' = << >>
  /\ produced' = << >>
  /\ failed' = {}
  /\ UNCHANGED << calls, loads, successes, db, loadedTables, outstanding >>

ArgChoices ==
  [table_name : TableNames, severity_threshold : SeverityChoices,
   focus_columns : FocusChoices, anomaly_types : AnomalyTypeChoices]

Next ==
  \/ \E a \in ArgChoices : detectAnomalies(a)
  \/ FetchSchema
  \/ FetchTotalRows
  \/ checkDuplicates
  \/ DuplicateQueryDone
  \/ checkNullValues
  \/ NullQueryDone
  \/ checkStatisticalOutliers
  \/ OutlierQueryDone
  \/ checkPatternAnomalies
  \/ LengthQueryDone
  \/ checkBusinessLogicAnomalies
  \/ BusinessQueryDone
  \/ OrphanQueryDone
  \/ SortAndFormat
  \/ Respond

Spec == Init /\ [][Next]_vars

(***************************************************************************)
(* Table names, file paths and the files on disk                           *)
(*                                                                         *)
(* Names and paths are spelled out character by character where the code   *)
(* inspects or rewrites them.                                              *)
(***************************************************************************)
\* number of load calls a client issues
MaxLoads == 2

Lower == {"a", "b", "c", "d", "e", "f", "g", "h", "i", "j", "k", "l", "m", "n", "o", "p",
          "q", "r", "s", "t", "u", "v", "w", "x", "y", "z"}

Upper == {"A", "B", "C", "D", "E", "F", "G", "H", "I", "J", "K", "L", "M", "N", "O", "P",
          "Q", "R", "S", "T", "U", "V", "W", "X", "Y", "Z"}

Digits == {"0", "1", "2", "3", "4", "5", "6", "7", "8", "9"}

\* the characters the class [a-zA-Z0-9_] accepts
WordChars == Lower \cup Upper \cup Digits \cup {"_"}

\* name.replace(/[^a-zA-Z0-9_]/g, '_')
Sanitize(chars) ==
  [i \in 1..Len(chars) |-> IF chars[i] \in WordChars THEN chars[i] ELSE "_"]

\* String.prototype.lastIndexOf, counting from 1; 0 when ch does not occur
LastIndexOf(chars, ch) ==
  IF \E i \in 1..Len(chars) : chars[i] = ch
  THEN CHOOSE i \in 1..Len(chars) :
         chars[i] = ch /\ \A j \in (i + 1)..Len(chars) : chars[j] # ch
  ELSE 0

\* String.prototype.endsWith
EndsWith(chars, suffix) ==
  /\ Len(suffix) <= Len(chars)
  /\ SubSeq(chars, Len(chars) - Len(suffix) + 1, Len(chars)) = suffix

\* path.basename(p)
Basename(p) == SubSeq(p, LastIndexOf(p, "/") + 1, Len(p))

\* path.extname(p): from the last dot of the base name, unless the name starts with it
ExtName(p) ==
  LET base == Basename(p)
      dot == LastIndexOf(base, ".")
  IN  IF dot <= 1 THEN << >> ELSE SubSeq(base, dot, Len(base))

\* path.basename(file_path, path.extname(file_path))
BasenameWithoutExt(p) == SubSeq(Basename(p), 1, Len(Basename(p)) - Len(ExtName(p)))

\* file_path.toLowerCase().endsWith('.xlsx')
IsXlsx(p) == EndsWith(ToLowerCase(p), <<".", "x", "l", "s", "x">>)

\* s.includes('*') || s.includes('?') || s.includes('[')
IsGlobPattern(p) == \E i \in 1..Len(p) : p[i] \in {"*", "?", "["}

PathSales == <<"d", "/", "q", "-", "1", ".", "c", "s", "v">>
PathEmpty == <<"d", "/", "e", ".", "c", "s", "v">>
PathOrders == <<"o", ".", "c", "s", "v">>
PathBook == <<"b", ".", "X", "L", "S", "X">>
PathEmptyBook == <<"e", ".", "x", "l", "s", "x">>
PathLegacy == <<"o", ".", "x", "l", "s">>
PathMissing == <<"m", ".", "x", "l", "s", "x">>
PatternSales == <<"d", "/", "q", "*", ".", "c", "s", "v">>
PatternEmpty == <<"d", "/", "e", "*", ".", "c", "s", "v">>
PatternNone == <<"x", "/", "*", ".", "c", "s", "v">>

File(kind, table) == [kind |-> kind, table |-> table]

\* the files on disk: a CSV file of 10 rows, one with a header line only,
\* one of 200 rows, two workbooks (one without data rows) and a legacy
\* workbook; PathMissing names no file
Disk ==
  (PathSales :> File("csv", TableSmall)) @@ (PathEmpty :> File("csv", TableEmpty))
  @@ (PathOrders :> File("csv", TableOrders)) @@ (PathBook :> File("xlsx", TableStats))
  @@ (PathEmptyBook :> File("xlsx", TableEmpty)) @@ (PathLegacy :> File("xls", TableSmall))

\* fs.access(path) resolves
Accessible(p) == p \in DOMAIN Disk

RECURSIVE SetToSeq(_)
SetToSeq(S) ==
  IF S = {} THEN << >>
  ELSE LET x == CHOOSE y \in S : TRUE IN << x >> \o SetToSeq(S \ {x})

\* SELECT file FROM glob(pattern): the files the pattern matches, for
\* patterns with one asterisk, which matches within a directory
Glob(pattern) ==
  LET star == LastIndexOf(pattern, "*")
      prefix == SubSeq(pattern, 1, star - 1)
      suffix == SubSeq(pattern, star + 1, Len(pattern))
  IN  IF star = 0 THEN SetToSeq({ f \in DOMAIN Disk : f = pattern })
      ELSE SetToSeq({ f \in DOMAIN Disk :
             /\ Len(f) >= Len(prefix) + Len(suffix)
             /\ SubSeq(f, 1, Len(prefix)) = prefix
             /\ EndsWith(f, suffix)
             /\ \A i \in (Len(prefix) + 1)..(Len(f) - Len(suffix)) : f[i] # "/" })

RECURSIVE RowsOfFiles(_)
RowsOfFiles(paths) ==
  IF paths = << >> THEN << >>
  ELSE Disk[Head(paths)].table.rows \o RowsOfFiles(Tail(paths))

\* read_csv / read_xlsx over a list of files: every file must exist, be of
\* the reader's kind and have the columns of the first one
ReadFiles(kind, paths) ==
  IF \/ paths = << >>
     \/ \E i \in 1..Len(paths) : ~Accessible(paths[i]) \/ Disk[paths[i]].kind # kind
  THEN Err
  ELSE IF \E i \in 1..Len(paths) : Disk[paths[i]].table.schema # Disk[paths[1]].table.schema
  THEN Err
  ELSE Ok([schema |-> Disk[paths[1]].table.schema, rows |-> RowsOfFiles(paths)])

\* CREATE OR REPLACE TABLE "<name>" AS SELECT ...
CreateOrReplace(d, name, table) == (name :> table) @@ d

\* variant: the statement leaves the table in place
DropNothing(d, name) == d

\* DROP TABLE IF EXISTS "<name>"
DropIfExists(d, name) == [n \in DOMAIN d \ {name} |-> d[n]]

\* a name that can stand unquoted in a statement
PlainIdentifier(name) ==
  /\ name # << >>
  /\ \A i \in 1..Len(name) : name[i] \in WordChars
  /\ name[1] \notin Digits

\* DESCRIBE <name>, SELECT ... FROM <name>: the name is not quoted
Unquoted(d, name) == IF PlainIdentifier(name) THEN DescribeQuery(d, name) ELSE Err

JsString(chars) == [t |-> "string", v |-> chars]
JsArray(items) == [t |-> "array", v |-> items]

(***************************************************************************)
(* The other tools: a call is a frame in a slot, each await a step         *)
(***************************************************************************)
detectVars == << pc, args, schema, totalRows, anomalies, det, outstanding, failures, result,
                 queryLog, detLog, produced, failed >>

\* no call of another tool is in flight
Quiet == \A i \in Slots : calls[i].pc \in {"idle", "returned"}

\* the server takes up a request in slot i
CanStart(i) == calls[i].pc \in {"idle", "returned"} /\ pc = "idle" /\ outstanding = {}

Begin(tool, a) == [NoCall EXCEPT !.tool = tool, !.args = a, !.before = loadedTables]

\* the text with which the catch block of each handler starts its message
Prefix(tool) ==
  CASE tool = "load_csv" -> "Failed to load CSV: "
    [] tool = "query_csv" -> "Query failed: "
    [] tool = "describe_table" -> "Failed to describe table: "
    [] tool = "list_tables" -> "Failed to list tables: "
    [] tool = "analyze_csv" -> "Analysis failed: "
    [] tool = "load_multiple_csvs" -> "Multi-CSV loading failed: "
    [] tool = "discover_csv_files" -> "CSV file discovery failed: "
    [] tool = "optimize_expenses" -> "Expense optimization failed: "
    [] tool = "load_excel" -> "Failed to load Excel: "
    [] tool = "load_multiple_excels" -> "Multi-Excel loading failed: "
    [] tool = "discover_excel_files" -> "Excel file discovery failed: "

\* variant: the Error leaves the handler as it was thrown
ThrownRaw(f, error) ==
  [f EXCEPT !.pc = "returned",
            !.result = [kind |-> "Error", code |-> "", message |-> <<error.text, error.file>>,
                        report |-> << >>]]

\* catch (error) { throw new McpError(ErrorCode.InternalError, `<prefix>: ${error.message}`) }
Thrown(f, error) ==
  [f EXCEPT !.pc = "returned",
            !.result = McpError("InternalError", Prefix(f.tool), error)]

\* return { content: [{ type: 'text', text }] }
Answered(f, text) == [f EXCEPT !.pc = "returned", !.result = Content(text)]

LoadArgs(file_path, pattern_or_files, table_name) ==
  [file_path |-> file_path, pattern_or_files |-> pattern_or_files, table_name |-> table_name]

\* an argument that was not given
Absent == << >>

\* table_name || fallback
OrDefault(given, fallback) == IF given = Absent THEN fallback ELSE given

\* loadCSV: const tableName = table_name || ...
CsvTableName(a) ==
  OrDefault(a.table_name,
            IF IsGlobPattern(a.file_path)
            THEN <<"c", "s", "v", "_">> \o Sanitize(a.file_path)
            ELSE Sanitize(BasenameWithoutExt(a.file_path)))

\* loadExcel: const tableName = table_name || ...
ExcelTableName(a) == OrDefault(a.table_name, Sanitize(BasenameWithoutExt(a.file_path)))

MultiCsvData == <<"m", "u", "l", "t", "i", "_", "c", "s", "v", "_", "d", "a", "t", "a">>

MultiExcelData ==
  <<"m", "u", "l", "t", "i", "_", "e", "x", "c", "e", "l", "_", "d", "a", "t", "a">>

\* loadMultipleCSVs, loadMultipleExcels: table_name.replace(/[^a-zA-Z0-9_]/g, '_')
MultiTableName(a, fallback) == Sanitize(OrDefault(a.table_name, fallback))

\* Array.prototype.join(', ')
RECURSIVE Join(_)
Join(paths) ==
  IF paths = << >> THEN << >>
  ELSE IF Len(paths) = 1 THEN paths[1]
  ELSE paths[1] \o <<",", " ">> \o Join(Tail(paths))

\* the second argument of this.loadedTables.set(tableName, ...)
Source(f) ==
  IF f.tool \in {"load_csv", "load_excel"} THEN f.args.file_path
  ELSE IF f.args.pattern_or_files.t = "string" THEN f.args.pattern_or_files.v
  ELSE Join(f.args.pattern_or_files.v)

Reader(tool) == IF tool \in {"load_csv", "load_multiple_csvs"} THEN "csv" ELSE "xlsx"

\* the files the CREATE statement of the call reads
FilesToRead(f) ==
  CASE f.tool = "load_csv" -> Glob(f.args.file_path)
    [] f.tool = "load_excel" -> << f.args.file_path >>
    [] f.tool = "load_multiple_csvs" ->
         IF f.args.pattern_or_files.t = "string" THEN Glob(f.args.pattern_or_files.v)
         ELSE f.args.pattern_or_files.v
    [] f.tool = "load_multiple_excels" ->
         IF /\ f.args.pattern_or_files.t = "string"
            /\ LastIndexOf(f.args.pattern_or_files.v, "*") > 0
         THEN Glob(f.args.pattern_or_files.v)
         ELSE f.files

\* the message of the Error thrown for a table without rows
EmptyText(tool) ==
  CASE tool = "load_csv" -> "CSV file is empty or contains no valid data"
    [] tool = "load_multiple_csvs" -> "No data was loaded from the CSV files"
    [] tool = "load_excel" ->
         "Excel file is empty or contains no valid data in the specified sheet/range"
    [] tool = "load_multiple_excels" -> "No data was loaded from the Excel files"

NotStringNorArray ==
  Error("pattern_or_files must be a string (glob pattern) or array of file paths", << >>)

ConvertXls ==
  Error("Only .xlsx files are supported. Please convert .xls files to .xlsx format.", << >>)

NonXlsxFile(file) == Error("Only .xlsx files are supported. Found non-xlsx file: ", file)

\* variant: an entry that exists keeps its source
RegisterOnce(map, name, source) == map @@ (name :> source)

\* this.loadedTables.set(name, source)
Register(map, name, source) == (name :> source) @@ map

\* loadCSV(args) up to its first await: the glob query or fs.access
loadCSV(i, a) ==
  /\ CanStart(i)
  /\ loads < MaxLoads
  /\ calls' = [calls EXCEPT ![i] =
       [Begin("load_csv", a) EXCEPT
          !.pc = IF IsGlobPattern(a.file_path) THEN "glob" ELSE "access"]]
  /\ loads' = loads + 1
  /\ UNCHANGED << db, loadedTables, successes, detectVars >>

\* loadMultipleCSVs(args) up to its first await
loadMultipleCSVs(i, a) ==
  /\ CanStart(i)
  /\ loads < MaxLoads
  /\ LET pof == a.pattern_or_files
         f == [Begin("load_multiple_csvs", a) EXCEPT
                 !.tableName = MultiTableName(a, MultiCsvData)]
     IN  calls' = [calls EXCEPT ![i] =
           IF pof.t = "string"
           THEN [f EXCEPT !.pc = IF IsGlobPattern(pof.v) THEN "glob" ELSE "create"]
           ELSE IF pof.t = "array"
           THEN [f EXCEPT !.files = pof.v, !.i = 1,
                          !.pc = IF pof.v = << >> THEN "create" ELSE "access"]
           ELSE Thrown(f, NotStringNorArray)]
  /\ loads' = loads + 1
  /\ UNCHANGED << db, loadedTables, successes, detectVars >>

\* loadExcel(args) up to its first await: the extension is validated first
loadExcel(i, a) ==
  /\ CanStart(i)
  /\ loads < MaxLoads
  /\ LET f == Begin("load_excel", a)
     IN  calls' = [calls EXCEPT ![i] =
           IF ~IsXlsx(a.file_path) THEN Thrown(f, ConvertXls)
           ELSE [f EXCEPT !.pc = "access"]]
  /\ loads' = loads + 1
  /\ UNCHANGED << db, loadedTables, successes, detectVars >>

\* loadMultipleExcels: the files found are filtered once more before the
\* extension is loaded
AfterDiscovery(f) ==
  LET nonXlsxFiles == SelectSeq(f.files, LAMBDA file : ~IsXlsx(file))
  IN  IF nonXlsxFiles # << >>
      THEN Thrown(f, Error("Found non-xlsx files: ", Join(nonXlsxFiles)))
      ELSE [f EXCEPT !.pc = "install"]

\* loadMultipleExcels(args) up to its first await; in an array the extension
\* of a file is validated before its existence
loadMultipleExcels(i, a) ==
  /\ CanStart(i)
  /\ loads < MaxLoads
  /\ LET pof == a.pattern_or_files
         f == [Begin("load_multiple_excels", a) EXCEPT
                 !.tableName = MultiTableName(a, MultiExcelData)]
     IN  calls' = [calls EXCEPT ![i] =
           IF pof.t = "string"
           THEN IF IsGlobPattern(pof.v) THEN [f EXCEPT !.pc = "glob"]
                ELSE IF ~IsXlsx(pof.v) THEN Thrown(f, ConvertXls)
                ELSE [f EXCEPT !.pc = "access"]
           ELSE IF pof.t = "array"
           THEN IF pof.v = << >> THEN AfterDiscovery(f)
                ELSE IF ~IsXlsx(pof.v[1]) THEN Thrown(f, NonXlsxFile(pof.v[1]))
                ELSE [f EXCEPT !.files = pof.v, !.i = 1, !.pc = "access"]
           ELSE Thrown(f, NotStringNorArray)]
  /\ loads' = loads + 1
  /\ UNCHANGED << db, loadedTables, successes, detectVars >>

\* const globResult = await this.executeQuery(globQuery)
GlobDone(i) ==
  LET f == calls[i]
      pattern == IF f.tool = "load_csv" THEN f.args.file_path ELSE f.args.pattern_or_files.v
      found == Glob(pattern)
      none == IF Reader(f.tool) = "csv" THEN "No CSV files found matching pattern: "
              ELSE "No Excel files found matching pattern: "
  IN  /\ f.pc = "glob"
      /\ calls' = [calls EXCEPT ![i] =
           IF found = << >> THEN Thrown(f, Error(none, pattern))
           ELSE IF f.tool = "load_csv"
           THEN [f EXCEPT !.files = found, !.tableName = CsvTableName(f.args), !.pc = "create"]
           ELSE IF f.tool = "load_multiple_csvs"
           THEN [f EXCEPT !.files = found, !.pc = "create"]
           ELSE AfterDiscovery([f EXCEPT !.files = found])]
      /\ UNCHANGED << db, loadedTables, loads, successes, detectVars >>

\* await fs.access(...): of the file, or of the next file of the array
AccessDone(i) ==
  LET f == calls[i]
      single == f.tool \in {"load_csv", "load_excel"}
      pof == f.args.pattern_or_files
      file == IF single THEN f.args.file_path
              ELSE IF pof.t = "string" THEN pof.v ELSE f.files[f.i]
      more == ~single /\ pof.t = "array" /\ f.i < Len(f.files)
  IN  /\ f.pc = "access"
      /\ calls' = [calls EXCEPT ![i] =
           IF ~Accessible(file)
           THEN Thrown(f, IF single
                          THEN Error("ENOENT: no such file or directory, access ", file)
                          ELSE Error("File not found: ", file))
           ELSE CASE f.tool = "load_csv" ->
                       [f EXCEPT !.tableName = CsvTableName(f.args), !.pc = "create"]
                  [] f.tool = "load_excel" -> [f EXCEPT !.pc = "install"]
                  [] f.tool = "load_multiple_csvs" ->
                       IF more THEN [f EXCEPT !.i = @ + 1] ELSE [f EXCEPT !.pc = "create"]
                  [] f.tool = "load_multiple_excels" ->
                       IF more
                       THEN IF ~IsXlsx(f.files[f.i + 1])
                            THEN Thrown(f, NonXlsxFile(f.files[f.i + 1]))
                            ELSE [f EXCEPT !.i = @ + 1]
                       ELSE AfterDiscovery(IF pof.t = "string"
                                           THEN [f EXCEPT !.files = << pof.v >>] ELSE f)]
      /\ UNCHANGED << db, loadedTables, loads, successes, detectVars >>

\* #ensureExcelExtension: await INSTALL excel, await LOAD excel; a failure
\* is logged and ignored
ExtensionDone(i) ==
  LET f == calls[i]
  IN  /\ f.pc \in {"install", "load"}
      /\ calls' = [calls EXCEPT ![i] =
           IF f.pc = "install" THEN [f EXCEPT !.pc = "load"]
           ELSE IF f.tool = "load_excel"
           THEN [f EXCEPT !.tableName = ExcelTableName(f.args), !.pc = "create"]
           ELSE [f EXCEPT !.pc = "create"]]
      /\ UNCHANGED << db, loadedTables, loads, successes, detectVars >>

\* await this.executeQuery(`CREATE OR REPLACE TABLE "${tableName}" AS SELECT ...`)
CreateDone(i) ==
  LET f == calls[i]
      r == IF f.tableName = << >> THEN Err ELSE ReadFiles(Reader(f.tool), FilesToRead(f))
  IN  /\ f.pc = "create"
      /\ IF r.ok
         THEN /\ db' = CreateOrReplace(db, f.tableName, r.rows)
              /\ calls' = [calls EXCEPT ![i] = [f EXCEPT !.wrote = r.rows, !.pc = "count"]]
         ELSE /\ calls' = [calls EXCEPT ![i] = Thrown(f, EngineError)]
              /\ UNCHANGED db
      /\ UNCHANGED << loadedTables, loads, successes, detectVars >>

\* const rowCount = Number(rowCountResult[0]?.row_count || 0); a table with
\* rows is registered before the next await
CountDone(i) ==
  LET f == calls[i]
      r == CountQuery(db, f.tableName)
  IN  /\ f.pc = "count"
      /\ IF ~r.ok
         THEN /\ calls' = [calls EXCEPT ![i] = Thrown(f, EngineError)]
              /\ UNCHANGED loadedTables
         ELSE IF r.rows[1].count = 0
         THEN /\ calls' = [calls EXCEPT ![i] = [f EXCEPT !.pc = "drop"]]
              /\ UNCHANGED loadedTables
         ELSE /\ loadedTables' = Register(loadedTables, f.tableName, Source(f))
              /\ calls' = [calls EXCEPT ![i] = [f EXCEPT !.pc = "inspect_schema"]]
      /\ UNCHANGED << db, loads, successes, detectVars >>

\* await this.executeQuery(`DROP TABLE IF EXISTS "${tableName}"`); throw new Error(...)
DropDone(i) ==
  LET f == calls[i]
  IN  /\ f.pc = "drop"
      /\ db' = DropIfExists(db, f.tableName)
      /\ calls' = [calls EXCEPT ![i] = Thrown(f, Error(EmptyText(f.tool), << >>))]
      /\ UNCHANGED << loadedTables, loads, successes, detectVars >>

\* inspectTableSchema: DESCRIBE, COUNT(*) and a sample, each awaited, the
\* name unquoted; a failure becomes the text of the answer.  The handler
\* then returns its content.
InspectDone(i) ==
  LET f == calls[i]
      r == Unquoted(db, f.tableName)
      answer(info) == Answered(f, [table |-> f.tableName, schemaInfo |-> info])
  IN  /\ f.pc \in {"inspect_schema", "inspect_count", "inspect_sample"}
      /\ IF ~r.ok
         THEN /\ calls' = [calls EXCEPT ![i] = answer("Schema inspection failed: ")]
              /\ successes' = (f.tableName :> Source(f)) @@ successes
         ELSE IF f.pc = "inspect_sample"
         THEN /\ calls' = [calls EXCEPT ![i] = answer("TABLE INSPECTION")]
              /\ successes' = (f.tableName :> Source(f)) @@ successes
         ELSE /\ calls' = [calls EXCEPT ![i] =
                   [f EXCEPT !.pc = IF f.pc = "inspect_schema" THEN "inspect_count"
                                    ELSE "inspect_sample"]]
              /\ UNCHANGED successes
      /\ UNCHANGED << db, loadedTables, loads, detectVars >>

\* Array.from(this.loadedTables.entries()).map(([name, path]) => ({ table_name, file_path }))
ListEntries(map) == { [table_name |-> n, file_path |-> map[n]] : n \in DOMAIN map }

\* listTables(): no await; the entries are the text of the answer
listTables(i) ==
  /\ CanStart(i)
  /\ calls' = [calls EXCEPT ![i] =
       Answered(Begin("list_tables", << >>), ListEntries(loadedTables))]
  /\ UNCHANGED << db, loadedTables, loads, successes, detectVars >>

\* a handler that awaits a query before it answers
AwaitQuery(i, tool, a) ==
  /\ CanStart(i)
  /\ calls' = [calls EXCEPT ![i] = [Begin(tool, a) EXCEPT !.pc = "query"]]
  /\ UNCHANGED << db, loadedTables, loads, successes, detectVars >>

\* queryCSV(args): await this.executeQuery(query)
queryCSV(i, a) == AwaitQuery(i, "query_csv", a)

\* describeTable(args): await this.executeQuery(`DESCRIBE ${table_name}`)
describeTable(i, a) == AwaitQuery(i, "describe_table", a)

\* analyzeCSV(args): await this.executeQuery(`SELECT ... FROM ${table_name}`)
analyzeCSV(i, a) == AwaitQuery(i, "analyze_csv", a)

\* discoverCSVFiles(args): await the glob query, then fs.stat of each file
discoverCSVFiles(i, a) == AwaitQuery(i, "discover_csv_files", a)

\* optimizeExpenses(args): await Promise.all of the four report queries
optimizeExpenses(i, a) == AwaitQuery(i, "optimize_expenses", a)

\* discoverExcelFiles(args): await the glob query, then fs.stat of each file
discoverExcelFiles(i, a) == AwaitQuery(i, "discover_excel_files", a)

\* what the query of a read-only handler yields
ReadQuery(d, tool, a) ==
  CASE tool = "query_csv" ->
         IF a.sql = "SELECT" /\ PlainIdentifier(a.table_name)
         THEN CountQuery(d, a.table_name) ELSE Err
    [] tool \in {"describe_table", "analyze_csv"} -> Unquoted(d, a.table_name)
    [] tool = "optimize_expenses" ->
         IF /\ Unquoted(d, a.table_name).ok
            /\ \A c \in {a.amount_column, a.name_column, a.date_column} :
                 HasColumn(d[a.table_name], c)
         THEN Ok(<<"report">>) ELSE Err
    [] tool = "discover_csv_files" -> Ok(Glob(a.pattern))
    [] tool = "discover_excel_files" -> Ok(SelectSeq(Glob(a.pattern), IsXlsx))

\* the query of a read-only handler settles: the rows become the text of
\* the answer, a rejection an McpError
QueryDone(i) ==
  LET f == calls[i]
      r == ReadQuery(db, f.tool, f.args)
  IN  /\ f.pc = "query"
      /\ calls' = [calls EXCEPT ![i] =
           IF r.ok THEN Answered(f, r.rows) ELSE Thrown(f, EngineError)]
      /\ UNCHANGED << db, loadedTables, loads, successes, detectVars >>

\* default: throw new McpError(ErrorCode.MethodNotFound, `Unknown tool: ${name}`)
UnknownTool(i, name) ==
  /\ CanStart(i)
  /\ calls' = [calls EXCEPT ![i] =
       [Begin(name, << >>) EXCEPT
          !.pc = "returned",
          !.result = McpError("MethodNotFound", "Unknown tool: ", Error(name, << >>))]]
  /\ UNCHANGED << db, loadedTables, loads, successes, detectVars >>

(***************************************************************************)
(* A client that awaits each answer before its next request                *)
(***************************************************************************)
NameT == <<"t">>

CsvRequests ==
  { LoadArgs(PathSales, JsUndefined, Absent), LoadArgs(PathOrders, JsUndefined, NameT),
    LoadArgs(PathEmpty, JsUndefined, NameT), LoadArgs(PathSales, JsUndefined, <<"q", "-", "1">>),
    LoadArgs(PatternSales, JsUndefined, Absent), LoadArgs(PatternEmpty, JsUndefined, Absent),
    LoadArgs(PatternNone, JsUndefined, Absent), LoadArgs(PathMissing, JsUndefined, Absent) }

MultiCsvRequests ==
  << LoadArgs(Absent, JsArray(<< PathSales >>), <<"a", " ", "b">>),
     LoadArgs(Absent, JsArray(<< PathEmpty >>), Absent),
     LoadArgs(Absent, JsArray(<< PathSales, PathMissing >>), Absent),
     LoadArgs(Absent, JsString(PatternSales), NameT),
     LoadArgs(Absent, JsNumber(123), Absent) >>

ExcelRequests ==
  { LoadArgs(PathBook, JsUndefined, Absent), LoadArgs(PathLegacy, JsUndefined, Absent),
    LoadArgs(PathEmptyBook, JsUndefined, NameT), LoadArgs(PathMissing, JsUndefined, Absent) }

MultiExcelRequests ==
  << LoadArgs(Absent, JsArray(<< PathBook, PathLegacy >>), Absent),
     LoadArgs(Absent, JsArray(<< PathMissing, PathLegacy >>), Absent),
     LoadArgs(Absent, JsArray(<< PathLegacy, PathMissing >>), Absent),
     LoadArgs(Absent, JsArray(<< PathBook >>), NameT),
     LoadArgs(Absent, JsArray(<< PathEmptyBook >>), Absent),
     LoadArgs(Absent, JsString(PathLegacy), Absent) >>

TableArgs == { [table_name |-> n] : n \in {NameT, <<"q", "-", "1">>} }

QueryRequests ==
  { [sql |-> "SELECT", table_name |-> NameT], [sql |-> "SELEC", table_name |-> NameT] }

PatternArgs == { [pattern |-> PatternSales], [pattern |-> <<"*", ".", "X", "L", "S", "X">>] }

ExpenseArgs ==
  { [table_name |-> NameT, amount_column |-> "Amount", name_column |-> c,
     date_column |-> "start_dt"] : c \in {"code", "Name"} }

UnknownTools == {"drop_table"}

\* the detect_anomalies calls of this client
DetectChoices ==
  { [table_name |-> NameT, severity_threshold |-> Undefined, focus_columns |-> << >>,
     anomaly_types |-> DefaultAnomalyTypes \cup {"business_logic"}] }

EmptyMap == [n \in {} |-> << >>]

LoadInit ==
  /\ db = EmptyMap
  /\ loadedTables = EmptyMap
  /\ pc = "idle"
  /\ args = NoArgs
  /\ schema = << >>
  /\ totalRows = NotFetched
  /\ anomalies = << >>
  /\ det = NoDet
  /\ outstanding = {}
  /\ failures = 0
  /\ result = NoResult
  /\ queryLog = << >>
  /\ detLog = << >>
  /\ produced = << >>
  /\ failed = {}
  /\ calls = NoCalls
  /\ loads = 0
  /\ successes = EmptyMap

LoadNext ==
  \/ \E a \in CsvRequests : Quiet /\ loadCSV(1, a)
  \/ \E k \in DOMAIN MultiCsvRequests : Quiet /\ loadMultipleCSVs(1, MultiCsvRequests[k])
  \/ \E a \in ExcelRequests : Quiet /\ loadExcel(1, a)
  \/ \E k \in DOMAIN MultiExcelRequests : Quiet /\ loadMultipleExcels(1, MultiExcelRequests[k])
  \/ GlobDone(1)
  \/ AccessDone(1)
  \/ ExtensionDone(1)
  \/ CreateDone(1)
  \/ CountDone(1)
  \/ DropDone(1)
  \/ InspectDone(1)
  \/ Quiet /\ listTables(1)
  \/ \E a \in QueryRequests : Quiet /\ queryCSV(1, a)
  \/ \E a \in TableArgs : Quiet /\ describeTable(1, a)
  \/ \E a \in TableArgs : Quiet /\ analyzeCSV(1, a)
  \/ \E a \in PatternArgs : Quiet /\ discoverCSVFiles(1, a)
  \/ \E a \in ExpenseArgs : Quiet /\ optimizeExpenses(1, a)
  \/ \E a \in PatternArgs : Quiet /\ discoverExcelFiles(1, a)
  \/ QueryDone(1)
  \/ \E name \in UnknownTools : Quiet /\ UnknownTool(1, name)
  \/ \E a \in DetectChoices : detectAnomalies(a)
  \/ FetchSchema
  \/ FetchTotalRows
  \/ checkDuplicates
  \/ DuplicateQueryDone
  \/ checkNullValues
  \/ NullQueryDone
  \/ checkStatisticalOutliers
  \/ OutlierQueryDone
  \/ checkPatternAnomalies
  \/ LengthQueryDone
  \/ checkBusinessLogicAnomalies
  \/ BusinessQueryDone
  \/ OrphanQueryDone
  \/ SortAndFormat
  \/ Respond

LoadSpec == LoadInit /\ [][LoadNext]_vars

(***************************************************************************)
(* A client that sends two load requests for one table name without        *)
(* awaiting the first answer                                               *)
(***************************************************************************)
RaceCsvRequests ==
  { LoadArgs(PathOrders, JsUndefined, NameT), LoadArgs(PathEmpty, JsUndefined, NameT),
    LoadArgs(PatternSales, JsUndefined, NameT) }

RaceMultiCsvRequests == { LoadArgs(Absent, JsArray(<< PathSales, PathSales >>), NameT) }

RaceExcelRequests == { LoadArgs(PathBook, JsUndefined, NameT) }

RaceMultiExcelRequests == { LoadArgs(Absent, JsArray(<< PathEmptyBook >>), NameT) }

RaceNext ==
  \/ \E i \in Slots, a \in RaceCsvRequests : calls[i].pc = "idle" /\ loadCSV(i, a)
  \/ \E i \in Slots, a \in RaceMultiCsvRequests : calls[i].pc = "idle" /\ loadMultipleCSVs(i, a)
  \/ \E i \in Slots, a \in RaceExcelRequests : calls[i].pc = "idle" /\ loadExcel(i, a)
  \/ \E i \in Slots, a \in RaceMultiExcelRequests :
       calls[i].pc = "idle" /\ loadMultipleExcels(i, a)
  \/ \E i \in Slots : GlobDone(i)
  \/ \E i \in Slots : AccessDone(i)
  \/ \E i \in Slots : ExtensionDone(i)
  \/ \E i \in Slots : CreateDone(i)
  \/ \E i \in Slots : CountDone(i)
  \/ \E i \in Slots : DropDone(i)
  \/ \E i \in Slots : InspectDone(i)

RaceSpec == LoadInit /\ [][RaceNext]_vars

(***************************************************************************)
(* Properties                                                              *)
(***************************************************************************)
Returned == pc = "done" /\ result.kind = "content"

Findings == result.report.findings

Severities == {"low", "medium", "high", "critical"}

SeverityRank(sev) == CASE sev = "low" -> 1 [] sev = "medium" -> 2
                       [] sev = "high" -> 3 [] sev = "critical" -> 4

DetectorNames == <<"duplicates", "nulls", "outliers", "patterns", "business_logic">>

DetectorIndex(name) == CHOOSE i \in 1..5 : DetectorNames[i] = name

\* the detector a finding of a type comes from
TypeIndex(type) == CASE type = "duplicate" -> 1 [] type = "null_values" -> 2
                     [] type = "statistical_outlier" -> 3 [] type = "length_pattern" -> 4
                     [] type = "business_logic" -> 5

\* the detector a query belongs to, 0 for the two initial fetches
KindIndex(kind) == CASE kind \in {"DESCRIBE", "COUNT"} -> 0
                     [] kind = "duplicate" -> 1 [] kind = "null" -> 2
                     [] kind \in {"stats", "iqr", "outlier", "example"} -> 3
                     [] kind = "length" -> 4
                     [] kind \in {"negative", "zero", "dateorder"} -> 5

OfSeverity(found, sev) == SelectSeq(found, LAMBDA a : a.severity = sev)

Occurrences(found, a) == Cardinality({ i \in 1..Len(found) : found[i] = a })

SameBag(f, g) ==
  /\ Len(f) = Len(g)
  /\ \A i \in 1..Len(f) : Occurrences(f, f[i]) = Occurrences(g, f[i])

AtLeast(found, sev) == SelectSeq(found, LAMBDA a : SeverityRank(a.severity) >= SeverityRank(sev))

\* C1: with a threshold T among low, medium, high, critical, every finding
\* of the returned report has a severity rank of at least the rank of T.
C1_SeverityFloor ==
  (Returned /\ args.severity_threshold \in Severities)
    => \A i \in 1..Len(Findings) :
         SeverityRank(Findings[i].severity) >= SeverityRank(args.severity_threshold)

\* a report under the threshold critical that shows a finding while the
\* detectors also produced findings of a lower severity
C1_Witness ==
  /\ Returned
  /\ args.severity_threshold = "critical"
  /\ Findings # << >>
  /\ \E i \in 1..Len(produced) : produced[i].severity # "critical"

\* C2: the findings of the report are in non-increasing severity order, and
\* findings of equal severity are in the order in which the detectors
\* produced them (duplicates, nulls, outliers, patterns, business logic; in
\* column order within a detector).
C2_StableSeverityOrder ==
  Returned =>
    /\ \A i \in 1..(Len(Findings) - 1) :
         SeverityRank(Findings[i].severity) >= SeverityRank(Findings[i + 1].severity)
    /\ \A i, j \in 1..Len(Findings) :
         (i < j /\ Findings[i].severity = Findings[j].severity)
           => TypeIndex(Findings[i].type) <= TypeIndex(Findings[j].type)
    /\ \A sev \in Severities :
         OfSeverity(Findings, sev) \in { << >>, OfSeverity(produced, sev) }

\* a report that the sort has reordered and that holds findings of equal
\* severity from different detectors and from different columns of one detector
C2_Witness ==
  /\ Returned
  /\ Findings # anomalies
  /\ \E i, j \in 1..Len(Findings) :
       /\ i < j
       /\ Findings[i].severity = Findings[j].severity
       /\ Findings[i].type # Findings[j].type
  /\ \E i, j \in 1..Len(Findings) :
       /\ i < j
       /\ Findings[i].severity = Findings[j].severity
       /\ Findings[i].type = Findings[j].type
       /\ Findings[i] # Findings[j]

\* C3: once schema and row count have been fetched, the call ends with a
\* report, never with an error, whatever detector query fails; the report
\* holds exactly the findings the detectors produced that pass the
\* threshold; a detector that has not returned is waiting for a query.
C3_DetectorFailuresContained ==
  /\ (pc = "done" /\ totalRows # NotFetched) => result.kind = "content"
  /\ (Returned /\ args.severity_threshold \in Severities)
       => SameBag(Findings, AtLeast(produced, args.severity_threshold))
  /\ pc \in {"in_duplicates", "in_nulls", "in_outliers", "in_patterns", "in_business"}
       => \E q \in outstanding : KindIndex(q.kind) = DetectorIndex(det.name)

\* a returned report with findings although a detector query was rejected
\* after that detector had already produced a finding
C3_Witness ==
  /\ Returned
  /\ Findings # << >>
  /\ \E f \in failed, i \in 1..Len(Findings) :
       /\ TypeIndex(Findings[i].type) = DetectorIndex(f[1])
       /\ f[2] # Findings[i].title[2]

\* what each detector finds about one column when its queries succeed
ExpectedDuplicate(c) ==
  LET r == DuplicateQuery(db, args.table_name, c)
  IN  IF r.ok THEN DuplicateAnomalies(c, r.rows) ELSE << >>

ExpectedNull(c) ==
  LET r == NullQuery(db, args.table_name, c)
  IN  IF r.ok THEN NullAnomalies(c, r.rows) ELSE << >>

ExpectedOutlier(c) ==
  LET st == StatsQuery(db, args.table_name, c)
      stats == st.rows[1]
      b == IF stats.total_count < 30
           THEN IqrBounds(IqrQuery(db, args.table_name, c).rows[1])
           ELSE SigmaBounds(stats)
      k == OutlierQuery(db, args.table_name, c, b).rows[1].outlier_count
  IN  IF st.ok /\ ~stats.stddevNull /\ stats.varNum > 0 /\ k > 0
      THEN << OutlierAnomaly(c, k, stats.total_count, b.method) >>
      ELSE << >>

ExpectedPattern(c) ==
  LET r == LengthQuery(db, args.table_name, c)
  IN  IF r.ok THEN PatternAnomalies(c, r.rows) ELSE << >>

ExpectedZero(c) ==
  LET r == ZeroQuery(db, args.table_name, c)
  IN  IF r.ok /\ NegativeQuery(db, args.table_name, c).ok
      THEN ZeroAnomalies(c, r.rows[1].zero_count) ELSE << >>

ExpectedDateOrder ==
  LET dateColumns == ColumnNames(DateColumns(schema))
      r == DateOrderQuery(db, args.table_name, dateColumns[1], dateColumns[2])
  IN  IF Len(dateColumns) >= 2 /\ r.ok /\ <<"business_logic", dateColumns[1]>> \notin failed
      THEN DateOrderAnomalies(r.rows[1].invalid_order_count) ELSE << >>

AllProduced(expected) == \A i \in 1..Len(expected) : Includes(produced, expected[i])

\* what a detector finds about column c when its queries succeed
Expected(name, c) ==
  CASE name = "duplicates" -> ExpectedDuplicate(c)
    [] name = "nulls" -> ExpectedNull(c)
    [] name = "outliers" -> ExpectedOutlier(c)
    [] name = "patterns" -> ExpectedPattern(c)
    [] name = "business_logic" -> ExpectedZero(c)

\* the findings about the columns of a detector whose queries were not
\* rejected have been produced
Unaffected(name, cols) ==
  Selected(name, args.anomaly_types)
    => \A i \in 1..Len(cols) :
         <<name, cols[i]>> \notin failed => AllProduced(Expected(name, cols[i]))

\* C4: in every detector a rejected query costs the findings of the column
\* it was about and nothing else: the findings about the other columns and
\* the other checks of the detector are produced all the same.
C4_FailureCostsOneColumn ==
  Returned =>
    /\ Unaffected("duplicates", DuplicateColumns(schema, args.focus_columns))
    /\ Unaffected("nulls", NullColumns(schema, args.focus_columns))
    /\ Unaffected("outliers", OutlierColumns(schema, args.focus_columns))
    /\ Unaffected("patterns", PatternColumns(schema, args.focus_columns))
    /\ Unaffected("business_logic", ColumnNames(AmountColumns(schema)))
    /\ Selected("business_logic", args.anomaly_types) => AllProduced(ExpectedDateOrder)

\* C5: at every point of a call at most one query is outstanding.
C5_OneQueryAtATime == Cardinality(outstanding) <= 1

\* C5 as amended: at most two queries are outstanding, two only while the
\* business-logic detector awaits the negative and zero counts of one
\* amount column, and at most one when business_logic is not selected.
C5_AtMostThePair ==
  /\ Cardinality(outstanding) <= 2
  /\ Cardinality(outstanding) = 2
       => /\ pc = "in_business"
          /\ det.step = "amount"
          /\ outstanding = {Query("negative", det.cols[det.i]), Query("zero", det.cols[det.i])}
  /\ (pc # "idle" /\ ~Selected("business_logic", args.anomaly_types))
       => Cardinality(outstanding) <= 1

\* both counts of an amount column are outstanding
C5_Witness ==
  /\ pc = "in_business"
  /\ Cardinality(outstanding) = 2

\* C6: schema and row count are fetched once each, first and second of all
\* queries; the selected detectors run in the order duplicates, nulls,
\* outliers, patterns, business logic, each after the previous has returned.
C6_FetchOnceThenFixedOrder ==
  /\ \A i \in 1..Len(queryLog) :
       /\ (queryLog[i] = "DESCRIBE") <=> (i = 1)
       /\ (queryLog[i] = "COUNT") <=> (i = 2)
  /\ \A i \in 1..(Len(queryLog) - 1) : KindIndex(queryLog[i]) <= KindIndex(queryLog[i + 1])
  /\ detLog # << >> => totalRows # NotFetched
  /\ \A i \in 1..Len(detLog) :
       /\ detLog[i][1] = (IF i % 2 = 1 THEN "call" ELSE "return")
       /\ i % 2 = 0 => detLog[i][2] = detLog[i - 1][2]
       /\ (i % 2 = 1 /\ i > 1) => DetectorIndex(detLog[i - 1][2]) < DetectorIndex(detLog[i][2])
  /\ \A i \in 3..Len(queryLog) :
       /\ Len(detLog) % 2 = 1 => KindIndex(queryLog[i]) <= DetectorIndex(detLog[Len(detLog)][2])
       /\ \E j \in 1..Len(detLog) : DetectorIndex(detLog[j][2]) = KindIndex(queryLog[i])
  /\ Returned =>
       { detLog[i][2] : i \in 1..Len(detLog) }
         = { DetectorNames[i] : i \in { j \in 1..5 : Selected(DetectorNames[j], args.anomaly_types) } }

\* a call in which all five detectors have run and returned
C6_Witness ==
  /\ Returned
  /\ Len(detLog) = 10
  /\ Len(queryLog) > 10

\* C7: with anomaly_types = [] no detector runs and no detector query is
\* issued, and the report of an existing table says that no anomalies were
\* detected.
C7_NoTypesNoFindings ==
  (pc # "idle" /\ args.anomaly_types = {})
    => /\ detLog = << >>
       /\ \A i \in 1..Len(queryLog) : KindIndex(queryLog[i]) = 0
       /\ (pc = "done" /\ totalRows # NotFetched)
            => /\ result.kind = "content"
               /\ result.report.noAnomalies
               /\ Findings = << >>

\* a call without anomaly types returns for the orders table, whose data
\* the detectors have findings about
C7_Witness ==
  /\ Returned
  /\ args.anomaly_types = {}
  /\ db[args.table_name] = TableOrders
  /\ args.focus_columns = << >>

\* C8: a threshold that is none of low, medium, high, critical filters and
\* orders the findings as the threshold medium does.
C8_UnknownThresholdIsMedium ==
  (Returned /\ args.severity_threshold \notin Severities)
    => Findings = SortBySeverity(AtLeast(produced, "medium"))

\* C9: no step of a call changes the tables of the database or the
\* registry of loaded tables.
C9_PureRead == [][db' = db /\ loadedTables' = loadedTables]_vars

\* a call has ended, with a report or with an error, on a server that has
\* a loaded table
C9_Witness ==
  /\ pc = "done"
  /\ DOMAIN loadedTables # {}
  /\ Len(queryLog) > 2

\* the sizes of the groups of equal non-null values of a column that have
\* more than one row
RepeatCounts(t, c) ==
  { n \in { CountCell(t, c, cell) : cell \in NonNullCells(t, c) } : n > 1 }

FindingsAbout(type, c) ==
  SelectSeq(produced, LAMBDA a : a.type = type /\ a.title[2] = c)

\* the number of rows of the table under analysis
TableRows == CountRows(db[args.table_name], RowIds(db[args.table_name]))

HasReturned(name) == \E i \in 1..Len(detLog) : detLog[i] = <<"return", name>>

\* the findings of one type, in the order in which they were produced
FindingsOfType(type) == SelectSeq(produced, LAMBDA a : a.type = type)

\* the number of rows in which column c is null
NullRows(c) == CountCell(db[args.table_name], c, Null)

\* the columns the null detector has examined without a rejected query and
\* that are to be reported: some value is null, and either more than 10%
\* of the rows are or more than 100 rows are
NullColumnsToReport ==
  SelectSeq(NullColumns(schema, args.focus_columns),
            LAMBDA c : /\ <<"nulls", c>> \notin failed
                       /\ NullRows(c) > 0
                       /\ (10 * NullRows(c) > TableRows \/ NullRows(c) > 100))

\* C12: the null detector produces a finding for a column exactly when the
\* column has nulls and either its severity is not low or it has more than
\* 100 nulls; the findings come in column order, one per such column.
C12_NullReportingThreshold ==
  HasReturned("nulls")
    => LET found == FindingsOfType("null_values")
       IN  /\ Len(found) = Len(NullColumnsToReport)
           /\ \A i \in 1..Len(found) :
                found[i].affected_records = NullRows(NullColumnsToReport[i])

\* 101 nulls in 100,000 rows are reported with severity low; the columns
\* with 99 nulls and with no nulls have no finding
C12_Witness ==
  /\ HasReturned("nulls")
  /\ TableRows = 100000
  /\ args.focus_columns = << >>
  /\ \A c \in {"a", "b", "c"} : <<"nulls", c>> \notin failed
  /\ NullRows("a") = 101 /\ NullRows("b") = 99 /\ NullRows("c") = 0
  /\ \E i \in 1..Len(produced) :
       /\ produced[i].type = "null_values"
       /\ produced[i].affected_records = 101
       /\ produced[i].severity = "low"
  /\ \A i \in 1..Len(produced) :
       produced[i].type = "null_values" => produced[i].affected_records \notin {0, 99}

\* the severity of n nulls among total rows, by the exact percentage
NullSeverity(n, total) ==
  IF 100 * n > 50 * total THEN "critical"
  ELSE IF 100 * n > 25 * total THEN "high"
  ELSE IF 100 * n > 10 * total THEN "medium"
  ELSE "low"

\* C13: the severity of a null finding follows from the null percentage of
\* the column: critical above 50, high above 25, medium above 10, else low,
\* also when the percentage is above a boundary by less than 0.005.
C13_NullSeverityByPercentage ==
  HasReturned("nulls")
    => LET found == FindingsOfType("null_values")
       IN  \A i \in 1..Len(found) :
             i <= Len(NullColumnsToReport)
               => found[i].severity = NullSeverity(NullRows(NullColumnsToReport[i]), TableRows)

\* the columns a detector examines, by the type of its findings
ExaminedColumns(type) ==
  CASE type = "duplicate" -> DuplicateColumns(schema, args.focus_columns)
    [] type = "null_values" -> NullColumns(schema, args.focus_columns)
    [] type = "statistical_outlier" -> OutlierColumns(schema, args.focus_columns)
    [] type = "length_pattern" -> PatternColumns(schema, args.focus_columns)
    [] OTHER -> << >>

\* C14: the title of every finding of the duplicate, null, outlier and
\* pattern detectors names a column the detector has examined.
C14_TitleNamesColumn ==
  \A i \in 1..Len(produced) :
    produced[i].type \in {"duplicate", "null_values", "statistical_outlier", "length_pattern"}
      => Includes(ExaminedColumns(produced[i].type), produced[i].title[2])

\* the non-null values of column c: how many, and n * sum of squares minus
\* the square of the sum, which is 0 exactly when they are all equal
NonNullCount(c) == CountRows(db[args.table_name], NonNullRows(db[args.table_name], c))

Spread(c) ==
  NonNullCount(c) * SumPower(db[args.table_name], c, 2)
    - SumPower(db[args.table_name], c, 1) * SumPower(db[args.table_name], c, 1)

\* the standard deviation of column c is null (fewer than two values) or 0
NoDeviation(c) == NonNullCount(c) < 2 \/ Spread(c) = 0

\* the number of rows whose value the method selects as an outlier
OutliersBy(method, c) ==
  LET t == db[args.table_name]
      b == IF method = "IQR"
           THEN IqrBounds(IqrQuery(db, args.table_name, c).rows[1])
           ELSE SigmaBounds(StatsQuery(db, args.table_name, c).rows[1])
  IN  CountRows(t, { j \in NonNullRows(t, c) : OutOfBounds(Cell(t, c, j).v, b) })

\* the numeric columns the outlier detector has examined without a rejected query
OutlierColumnsExamined ==
  SelectSeq(OutlierColumns(schema, args.focus_columns),
            LAMBDA c : <<"outliers", c>> \notin failed)

\* C15: a numeric column whose standard deviation is null or 0 yields no
\* finding and no error; any other finding names the IQR method for fewer
\* than 30 non-null values and the 3-sigma method from 30 on, and counts
\* the rows that method selects.
C15_OutlierMethodBySize ==
  HasReturned("outliers")
    => LET cols == OutlierColumns(schema, args.focus_columns)
       IN  \A i \in 1..Len(cols) :
             LET c == cols[i]
                 found == FindingsAbout("statistical_outlier", c)
                 method == IF NonNullCount(c) < 30 THEN "IQR" ELSE "3-sigma"
             IN  /\ (failures = 0) => <<"outliers", c>> \notin failed
                 /\ NoDeviation(c) => found = << >>
                 /\ (<<"outliers", c>> \notin failed /\ ~NoDeviation(c))
                      => Len(found) = IF OutliersBy(method, c) > 0 THEN 1 ELSE 0
                 /\ \A j \in 1..Len(found) :
                      /\ found[j].method = method
                      /\ found[j].affected_records = OutliersBy(method, c)

\* one table with a finding by each method, a constant column and a column
\* with a single value, the last two without finding
C15_Witness ==
  /\ HasReturned("outliers")
  /\ failed = {}
  /\ \E c \in {"w"} : /\ Includes(OutlierColumnsExamined, c)
                       /\ NonNullCount(c) < 30
                       /\ Len(FindingsAbout("statistical_outlier", c)) = 1
                       /\ FindingsAbout("statistical_outlier", c)[1].method = "IQR"
  /\ \E c \in {"m"} : /\ Includes(OutlierColumnsExamined, c)
                       /\ NonNullCount(c) >= 30
                       /\ Len(FindingsAbout("statistical_outlier", c)) = 1
                       /\ FindingsAbout("statistical_outlier", c)[1].method = "3-sigma"
  /\ \E c \in {"k"} : /\ Includes(OutlierColumnsExamined, c)
                       /\ NonNullCount(c) >= 2 /\ Spread(c) = 0
                       /\ FindingsAbout("statistical_outlier", c) = << >>
  /\ \E c \in {"s"} : /\ Includes(OutlierColumnsExamined, c)
                       /\ NonNullCount(c) = 1
                       /\ FindingsAbout("statistical_outlier", c) = << >>

\* the method the outlier detector is to use for column c
MethodFor(c) == IF NonNullCount(c) < 30 THEN "IQR" ELSE "3-sigma"

\* C16: a numeric column with k > 0 outliers among c non-null rows yields
\* exactly one finding, of severity high if k/c is above 5%, medium if it is
\* above 1%, and low otherwise; low findings are produced too, and no
\* outlier finding is critical.
C16_OutlierSeverity ==
  HasReturned("outliers")
    => /\ \A i \in 1..Len(OutlierColumnsExamined) :
            LET c == OutlierColumnsExamined[i]
                k == OutliersBy(MethodFor(c), c)
                found == FindingsAbout("statistical_outlier", c)
            IN  (~NoDeviation(c) /\ k > 0)
                  => /\ Len(found) = 1
                     /\ found[1].severity =
                          (IF 100 * k > 5 * NonNullCount(c) THEN "high"
                           ELSE IF 100 * k > NonNullCount(c) THEN "medium"
                           ELSE "low")
       /\ \A i \in 1..Len(produced) :
            produced[i].type = "statistical_outlier" => produced[i].severity # "critical"

\* a column of which exactly 1% are outliers has a finding of severity low
C16_Witness ==
  /\ HasReturned("outliers")
  /\ \E i \in 1..Len(OutlierColumnsExamined) :
       LET c == OutlierColumnsExamined[i]
           found == FindingsAbout("statistical_outlier", c)
       IN  /\ Len(found) = 1
           /\ found[1].severity = "low"
           /\ found[1].affected_records > 0
           /\ 100 * found[1].affected_records = NonNullCount(c)

\* the rows of column c outside the fences Q1 - 1.5 * (Q3 - Q1) and
\* Q3 + 1.5 * (Q3 - Q1); the quartiles are in quarters, so the comparison
\* is made in eighths
OutsideFences(c) ==
  LET t == db[args.table_name]
      q1 == PercentileCont4(t, c, 1)
      q3 == PercentileCont4(t, c, 3)
  IN  { j \in NonNullRows(t, c) :
          \/ 8 * Cell(t, c, j).v < 2 * q1 - 3 * (q3 - q1)
          \/ 8 * Cell(t, c, j).v > 2 * q3 + 3 * (q3 - q1) }

\* C17: for a numeric column with fewer than 30 non-null values and a
\* non-zero standard deviation the outliers counted are the values outside
\* the fences; for the values 1..9 and 1000 that is the value 1000 alone,
\* and the finding has severity high.
C17_IqrFences ==
  HasReturned("outliers")
    => \A i \in 1..Len(OutlierColumnsExamined) :
         LET c == OutlierColumnsExamined[i]
             t == db[args.table_name]
             found == FindingsAbout("statistical_outlier", c)
             outside == OutsideFences(c)
         IN  (NonNullCount(c) < 30 /\ ~NoDeviation(c))
               => /\ Len(found) = IF outside = {} THEN 0 ELSE 1
                  /\ \A j \in 1..Len(found) :
                       found[j].affected_records = CountRows(t, outside)
                  /\ (t = TableSmall /\ c = "value")
                       => /\ { Cell(t, c, j).v : j \in outside } = {1000}
                          /\ Len(found) = 1
                          /\ found[1].affected_records = 1
                          /\ found[1].severity = "high"

\* the outlier detector has examined the column 1..9, 1000 and a column
\* whose largest value 15 lies just above the upper fence 14.5
C17_Witness ==
  /\ HasReturned("outliers")
  /\ \E i \in 1..Len(OutlierColumnsExamined) :
       LET c == OutlierColumnsExamined[i]
           t == db[args.table_name]
       IN  /\ NonNullCount(c) = 10
           /\ { Cell(t, c, j).v : j \in NonNullRows(t, c) } = (1..9) \cup {1000}
           /\ Len(FindingsAbout("statistical_outlier", c)) = 1
           /\ FindingsAbout("statistical_outlier", c)[1].method = "IQR"

\* how often the call has issued a query of the given kind
Issued(kind) == Len(SelectSeq(queryLog, LAMBDA k : k = kind))

\* C18: the pattern detector examines at most 3 text columns, with or
\* without focus columns: at most 3 length queries and at most 3 findings.
C18_PatternColumnsCapped ==
  /\ Issued("length") <= 3
  /\ Len(FindingsOfType("length_pattern")) <= 3
  /\ (\E i \in 1..Len(detLog) : detLog[i] = <<"call", "patterns">>)
       => Len(PatternColumns(schema, args.focus_columns)) <= 3

\* the rows in the length buckets of column c, of the 20 most frequent,
\* that are longer than 200 or shorter than 1
ExtremeRows(c) ==
  LET buckets == LengthQuery(db, args.table_name, c).rows
  IN  SumSeq([i \in 1..Len(buckets) |->
                IF buckets[i].str_length > 200 \/ buckets[i].str_length < 1
                THEN buckets[i].count ELSE 0])

\* C19: a text column with extreme length buckets yields exactly one
\* length_pattern finding, whose affected records are the rows of those
\* buckets and whose severity is medium above 100 rows and low otherwise; a
\* column without extreme buckets yields none.
C19_LengthPatternFinding ==
  HasReturned("patterns")
    => LET cols == PatternColumns(schema, args.focus_columns)
       IN  \A i \in 1..Len(cols) :
             <<"patterns", cols[i]>> \notin failed
               => LET found == FindingsAbout("length_pattern", cols[i])
                      rows == ExtremeRows(cols[i])
                  IN  IF rows = 0 THEN found = << >>
                      ELSE /\ Len(found) = 1
                           /\ found[1].affected_records = rows
                           /\ found[1].severity = (IF rows > 100 THEN "medium" ELSE "low")

\* the rows in which column c is 0
ZeroRows(c) ==
  LET t == db[args.table_name]
  IN  CountRows(t, { j \in NonNullRows(t, c) : Cell(t, c, j).v = 0 })

\* the amount-like columns whose two counts the business-logic detector
\* has received: those up to the first rejected query
AmountColumnsExamined ==
  LET cols == ColumnNames(AmountColumns(schema))
  IN  SelectSeq(cols, LAMBDA c :
        \A j \in 1..Len(cols) :
          <<"business_logic", cols[j]>> \in failed
            => \E i \in 1..(j - 1) : cols[i] = c)

\* C20: an amount-like column yields a zero-value finding exactly when more
\* than 50 of its rows are 0, of severity high above 500 rows and medium
\* otherwise; negative values yield no finding.
C20_ZeroValueFinding ==
  HasReturned("business_logic")
    => /\ \A i \in 1..Len(AmountColumnsExamined) :
            LET c == AmountColumnsExamined[i]
                found == FindingsAbout("business_logic", c)
            IN  /\ Len(found) = IF ZeroRows(c) > 50 THEN 1 ELSE 0
                /\ \A j \in 1..Len(found) :
                     /\ found[j].title[1] = "Excessive Zero Values in "
                     /\ found[j].affected_records = ZeroRows(c)
                     /\ found[j].severity = (IF ZeroRows(c) > 500 THEN "high" ELSE "medium")
       /\ \A i \in 1..Len(produced) :
            produced[i].type = "business_logic"
              => produced[i].title[1] \in {"Excessive Zero Values in ", "Invalid Date Sequence"}

\* columns with 501, 500, 51 and 50 zero rows, one of them with negative
\* values: a high finding, two medium findings and no finding
C20_Witness ==
  /\ HasReturned("business_logic")
  /\ AmountColumnsExamined = <<"charge", "Amount", "price", "total_amount">>
  /\ ZeroRows("charge") = 501 /\ ZeroRows("Amount") = 500
  /\ ZeroRows("price") = 51 /\ ZeroRows("total_amount") = 50
  /\ \E j \in NonNullRows(db[args.table_name], "price") :
       Cell(db[args.table_name], "price", j).v < 0
  /\ Len(FindingsAbout("business_logic", "charge")) = 1
  /\ FindingsAbout("business_logic", "charge")[1].severity = "high"
  /\ Len(FindingsAbout("business_logic", "Amount")) = 1
  /\ FindingsAbout("business_logic", "Amount")[1].severity = "medium"
  /\ Len(FindingsAbout("business_logic", "price")) = 1
  /\ FindingsAbout("business_logic", "total_amount") = << >>

\* the rows in which both c1 and c2 hold a value and c1 lies after c2
InvertedRows(c1, c2) ==
  LET t == db[args.table_name]
  IN  CountRows(t, { j \in RowIds(t) :
                     /\ Cell(t, c1, j) # Null /\ Cell(t, c2, j) # Null
                     /\ Cell(t, c1, j).v > Cell(t, c2, j).v })

\* the date-sequence findings produced so far
DateFindings == SelectSeq(produced, LAMBDA a : a.title[1] = "Invalid Date Sequence")

\* the business-logic detector has returned and none of its queries was rejected
BusinessLogicCompleted ==
  /\ HasReturned("business_logic")
  /\ \A p \in failed : p[1] # "business_logic"

\* C21: when the schema has two or more date or timestamp columns, the
\* business-logic detector compares the first two in schema order: it
\* produces one 'Invalid Date Sequence' finding exactly when d > 0 rows hold
\* both values with the first after the second, of severity high when
\* d > 100 and medium otherwise; with fewer than two such columns it produces
\* no date finding.
C21_DateSequenceFinding ==
  BusinessLogicCompleted
    => LET dateColumns == ColumnNames(DateColumns(db[args.table_name].schema))
       IN  IF Len(dateColumns) >= 2
           THEN LET d == InvertedRows(dateColumns[1], dateColumns[2])
                IN  /\ Len(DateFindings) = IF d > 0 THEN 1 ELSE 0
                    /\ \A i \in 1..Len(DateFindings) :
                         /\ DateFindings[i].type = "business_logic"
                         /\ DateFindings[i].affected_records = d
                         /\ DateFindings[i].severity = (IF d > 100 THEN "high" ELSE "medium")
           ELSE DateFindings = << >>

\* three date columns whose first two are inverted in 101 rows: one high
\* finding about 101 rows, although the last two are inverted in 50 rows
C21_Witness ==
  /\ BusinessLogicCompleted
  /\ ColumnNames(DateColumns(db[args.table_name].schema)) = <<"opened", "closed", "audited">>
  /\ InvertedRows("opened", "closed") = 101
  /\ InvertedRows("closed", "audited") = 50
  /\ Len(DateFindings) = 1
  /\ DateFindings[1].severity = "high"
  /\ DateFindings[1].affected_records = 101

\* the number of times the outlier detector has been called
OutlierCalls == Cardinality({ i \in 1..Len(detLog) : detLog[i] = <<"call", "outliers">> })

\* C29: the outlier detector runs at most once per call; when both
\* 'statistical' and 'outliers' are requested, every numeric column yields
\* at most one statistical_outlier finding, and the findings are those the
\* table alone determines, the same as with only one of the two names.
C29_OutliersRunOnce ==
  /\ OutlierCalls <= 1
  /\ \A i \in 1..Len(produced) :
       produced[i].type = "statistical_outlier"
         => Len(FindingsAbout("statistical_outlier", produced[i].title[2])) = 1
  /\ HasReturned("outliers")
       => \A i \in 1..Len(OutlierColumnsExamined) :
            FindingsAbout("statistical_outlier", OutlierColumnsExamined[i])
              = ExpectedOutlier(OutlierColumnsExamined[i])

\* both names are requested, the detector has run once and has produced
\* one finding about the numeric column
C29_Witness ==
  /\ {"statistical", "outliers"} \subseteq args.anomaly_types
  /\ HasReturned("outliers")
  /\ OutlierCalls = 1
  /\ Len(FindingsAbout("statistical_outlier", "value")) = 1

\* C30: every finding of a report asked for with the threshold 'critical'
\* is a duplicate or a null-value finding, and no report asked for with the
\* threshold 'high' or 'critical' holds a length-pattern finding.
C30_CriticalOnlyDuplicatesAndNulls ==
  Returned
    => \A i \in 1..Len(Findings) :
         /\ args.severity_threshold = "critical"
              => Findings[i].type \in {"duplicate", "null_values"}
         /\ args.severity_threshold \in {"high", "critical"}
              => Findings[i].type # "length_pattern"

\* a report with the threshold 'critical' about a table with a critical
\* null rate, for which the outlier and business-logic detectors produced
\* findings that the threshold removed
C30_Witness ==
  /\ Returned
  /\ args.severity_threshold = "critical"
  /\ \E i \in 1..Len(Findings) : Findings[i].type = "null_values"
  /\ \E i \in 1..Len(produced) : produced[i].type = "business_logic"
  /\ \E i \in 1..Len(produced) : produced[i].type = "statistical_outlier"

(***************************************************************************)
(* Properties of the other tools                                           *)
(***************************************************************************)
\* the calls that have returned, as frames
ReturnedCalls == { calls[i] : i \in { j \in Slots : calls[j].pc = "returned" } }

LoadTools == {"load_csv", "load_multiple_csvs", "load_excel", "load_multiple_excels"}

\* the names the CallToolRequest handler dispatches on
ToolNames ==
  LoadTools \cup {"query_csv", "describe_table", "list_tables", "analyze_csv",
                  "discover_csv_files", "optimize_expenses", "detect_anomalies",
                  "discover_excel_files"}

\* the prefixes the specification names, with the separator the code adds
NamedPrefix(tool) ==
  CASE tool = "load_csv" -> "Failed to load CSV: "
    [] tool = "query_csv" -> "Query failed: "
    [] tool = "describe_table" -> "Failed to describe table: "

FirstNonXlsx(files) == files[CHOOSE i \in 1..Len(files) :
                               ~IsXlsx(files[i]) /\ \A j \in 1..(i - 1) : IsXlsx(files[j])]

\* C23: loadMultipleExcels with an array that holds a path not ending in
\* .xlsx fails with a message that contains 'Only .xlsx files are supported'
\* and names that file, wherever it stands in the array and whether or not
\* the other files exist; no table is created and loadedTables is unchanged.
C23_NonXlsxRejected ==
  \A f \in ReturnedCalls :
    (/\ f.tool = "load_multiple_excels"
     /\ f.args.pattern_or_files.t = "array"
     /\ \E i \in 1..Len(f.args.pattern_or_files.v) : ~IsXlsx(f.args.pattern_or_files.v[i]))
      => /\ f.result.kind = "McpError"
         /\ f.result.message[2] = "Only .xlsx files are supported. Found non-xlsx file: "
         /\ f.result.message[3] = FirstNonXlsx(f.args.pattern_or_files.v)
         /\ f.wrote = NoTable
         /\ loadedTables = f.before

\* the number of rows of a table
RowCount(t) == CountRows(t, RowIds(t))

\* the load calls that have returned and whose CREATE made a table without rows
EmptyLoads == { f \in ReturnedCalls : f.wrote # NoTable /\ RowCount(f.wrote) = 0 }

\* C24: a load call (loadCSV of a file or of a pattern, loadMultipleCSVs,
\* loadExcel, loadMultipleExcels) whose CREATE made a table without rows
\* fails with an McpError, the table does not exist when the call returns,
\* and loadedTables is as it was before the call.
C24_EmptyTableDropped ==
  \A f \in EmptyLoads :
    /\ f.result.kind = "McpError"
    /\ ~TableExists(db, f.tableName)
    /\ loadedTables = f.before

\* a load of the empty workbook over a table that had been loaded before
C24_Witness ==
  \E f \in EmptyLoads :
    /\ f.tool = "load_excel"
    /\ f.tableName = NameT
    /\ NameT \in DOMAIN f.before
    /\ f.result.message[2] = EmptyText("load_excel")

\* a call is between its registration and its return
Inspecting == \E i \in Slots : calls[i].pc \in {"inspect_schema", "inspect_count", "inspect_sample"}

\* C25: list_tables reports exactly one entry for every table name that a
\* load has succeeded for, with the source of the latest such load; it
\* reports nothing before the first load; a load that failed and a call of
\* any other tool leave the entries as they were.
C25_ListTablesIsLoadHistory ==
  /\ ~Inspecting => ListEntries(loadedTables) = ListEntries(successes)
  /\ loads = 0 => ListEntries(loadedTables) = {}
  /\ \A f \in ReturnedCalls :
       /\ f.tool = "list_tables"
            => /\ f.result.kind = "content"
               /\ f.result.report = ListEntries(successes)
               /\ \A e1, e2 \in f.result.report :
                    e1.table_name = e2.table_name => e1 = e2
       /\ (f.tool \notin LoadTools \/ f.result.kind = "McpError")
            => loadedTables = f.before

\* list_tables has answered after table t was loaded from the orders file
\* and then again from the pattern
C25_Witness ==
  \E f \in ReturnedCalls :
    /\ f.tool = "list_tables"
    /\ loads = 2
    /\ TableExists(db, NameT)
    /\ f.result.report = { [table_name |-> NameT, file_path |-> PatternSales] }

\* C26: every name under which a load creates and registers a table consists
\* of letters, digits and underscores only.
C26_TableNamesSanitized ==
  \A n \in DOMAIN db \cup DOMAIN loadedTables : \A i \in 1..Len(n) : n[i] \in WordChars

\* C27: after any sequence of load calls every name in loadedTables names a
\* table that exists and has at least one row.
C27_LoadedTablesExist ==
  Quiet => \A n \in DOMAIN loadedTables : TableExists(db, n) /\ RowCount(db[n]) > 0

\* C28: when two concurrent load calls on one table name have both
\* finished, the source recorded for the name is the source whose data the
\* table holds, and the table of a call that reported success is present.
C28_ConcurrentLoadsConsistent ==
  (\A i \in Slots : calls[i].pc = "returned")
    => /\ \A n \in DOMAIN loadedTables :
            /\ TableExists(db, n)
            /\ \E i \in Slots : /\ calls[i].tableName = n
                                /\ Source(calls[i]) = loadedTables[n]
                                /\ calls[i].wrote = db[n]
       /\ \A i \in Slots :
            calls[i].result.kind = "content" => TableExists(db, calls[i].tableName)

====
